---- MODULE Spec2Model ----
(***************************************************************************)
(* A model of the AppFlinger Go client SDK (appflinger.go): the session    *)
(* lifecycle (SessionStart / SessionStop / SessionUIStreamStart /          *)
(* SessionUIStreamStop), the control-channel long-polling engine           *)
(* (controlChannelRun) and the double-buffered UI pipeline                 *)
(* (uiImageStream / uiVideoStream), with the three channels of a           *)
(* SessionContext modelled as Go channels of capacity 1.                   *)
(***************************************************************************)
EXTENDS Integers, Sequences, FiniteSets, TLC

\* ------------------------------------------------------------------ bounds
\* Number of control-channel polls the server answers; a later poll is held
\* open by the server (long polling) until the session is stopped. One bound
\* for the specification of the control channel alone, one for the
\* specifications in which the UI pipeline runs beside it.
MaxPolls == 2
MaxSessionPolls == 1
\* Number of UI pipeline tasks SessionUIStreamStart may launch: in the
\* specification of the UI pipeline, and in that of the whole session.
MaxUIStreams == 2
MaxSessionUIStreams == 1
\* Number of frames a UI stream carries before the server holds the stream:
\* in the specification of the UI pipeline, and in that of the whole session.
MaxFrames == 2
MaxSessionFrames == 1
\* application tasks that call the request API, and calls they make in all
MaxApiTasks == 2
MaxApiCalls == 2
\* largest size field of an image header; most NAL units in a video packet
MaxImageSize == 3
MaxNalus == 3
\* calls of the request API made while the session is shut down
MaxShutdownCalls == 1
\* contexts created by SessionStart
MaxContexts == 3

UITasks == 1..MaxUIStreams
ApiTasks == 1..MaxApiTasks

\* ------------------------------------------------------ values and inputs
\* ErrInterrupted and the other error texts, "" stands for a nil error.
NoErr == ""
ErrInterrupted == "Aborting due to interrupt"
ErrHttp == "HTTP request failed"
\* The errors controlChannelRun returns other than ErrInterrupted (request
\* creation, transport, status, content type, read, missing sentinel): its only
\* caller, controlChannelRoutine, tells them from ErrInterrupted and no further.
ErrControl == "Control channel error"
ErrRead == "read failed"
ErrListener == "listener failed"
ErrAlreadyStreaming == "UI is already streaming"
ErrNotStreaming == "UI is not streaming"
ErrInvalidFormat == "Invalid format"

\* Formats handed to SessionUIStreamStart: a video format, an image format with
\* an alpha token, an image format without one, and a format in neither table.
Formats == {"mp2t;h264", "jpeg;png", "jpeg", "bogus"}
AllowedVideoFmt == {"mp2t;h264"}
AllowedImageFmt == {"jpeg;png", "jpeg"}

\* The number of ";"-separated parts of a format (strings.Split(fmt, ";")).
FmtParts(f) == IF f \in {"mp2t;h264", "jpeg;png"} THEN 2 ELSE 1

\* isImageFormat: an allowed image format with other than two parts is an error.
isImageFormatErr(f) == f \in AllowedImageFmt /\ FmtParts(f) # 2

\* SessionGetUIURL: the error it returns for a format ("" when it builds a URL).
SessionGetUIURLErr(f) ==
    IF f \notin AllowedVideoFmt /\ f \notin AllowedImageFmt THEN ErrInvalidFormat
    ELSE IF isImageFormatErr(f) THEN ErrInvalidFormat
    ELSE NoErr

\* The i-th ";"-separated part of a format ("" when it has fewer parts).
FmtPart(f, i) ==
    CASE f = "mp2t;h264" -> <<"mp2t", "h264">>[i]
      [] f = "jpeg;png" -> <<"jpeg", "png">>[i]
      [] OTHER -> <<f, "">>[i]

\* SessionGetUIURL for a format it accepts: the values of the fmt and alpha
\* parameters of the URL (alpha is empty when the URL has none). ${FMT} is
\* replaced by the imgFormat that isImageFormat returned, which is "" for a
\* format outside the image table.
SessionGetUIURL(f) ==
    LET isImageStream == f \in AllowedImageFmt
        imgFormat == IF isImageStream THEN FmtPart(f, 1) ELSE ""
        alphaFormat == IF isImageStream THEN FmtPart(f, 2) ELSE ""
    IN [fmt |-> imgFormat,
        alpha |-> IF isImageStream /\ alphaFormat # "" THEN <<alphaFormat>> ELSE <<>>]

\* The session ids the server hands out.
SessionIds == {"a", "b"}

\* -------------------------------------------------------------- variables
VARIABLES
    \* the caller's task: position, return address of a nested call, last result
    fgPc, fgRet, fgErr, fgArg,
    \* SessionContext
    isUIStreaming, shouldStopSession, shouldStopUI, isDone, sessionIdToCtx, sidOk,
    \* the listener handed to SessionStart is not nil
    appf,
    \* controlChannelRun: position and locals
    ctlPc, shouldReset, postMessage, errChan, httpRes, body, ctlChild, ctlErr,
    \* the server side of the control channel: polls received so far
    npolls,
    \* history: the last poll issued, the last body decoded, acks sent, who
    \* sent the ack SessionStop consumed, whether SessionStop found the engine
    \* blocked in its POST
    curPoll, rxBody, ctlAcks, stopAckBy, stopDuringPoll,
    \* the UI pipeline tasks and the number launched
    ui, uiCount,
    \* the application tasks calling SessionSendEvent / SessionSendNotification,
    \* the number of calls made, and the process-wide globalRequestId
    api, apiCalls, globalRequestId,
    \* readImage: position, the UIImage being filled, what the reader br still
    \* holds, and the record that was put on the stream
    imgPc, imgData, br, imgRecord,
    \* pktToBitstream: position, the codec data, the packet and the result
    pktPc, videoCodecData, pkt, data,
    \* the body of the response the engine holds: "none", "open", "cancelled"
    \* (its request was cancelled), "closed" (Close was called once),
    \* "closedTwice"
    resBody,
    \* a second application task calling SessionUIStreamStart: its position,
    \* the format it passed and the error it got
    startPc, startFmt, startErr,
    \* the contexts SessionStart has created, in order (session id, state of
    \* the shutdown signal, state of the engine), and the registry as a map
    \* from session ids to the index of a context (0 when absent)
    contexts, registry

fgVars == <<fgPc, fgRet, fgErr, fgArg>>
ctxVars == <<isUIStreaming, shouldStopSession, shouldStopUI, isDone, sessionIdToCtx, sidOk, appf>>
ctlVars == <<ctlPc, shouldReset, postMessage, errChan, httpRes, body, ctlChild, ctlErr>>
histVars == <<curPoll, rxBody, ctlAcks, stopAckBy, stopDuringPoll>>
uiVars == <<ui, uiCount>>
apiVars == <<api, apiCalls, globalRequestId>>
\* the session, its engine and its UI pipelines
coreVars == <<fgVars, ctxVars, ctlVars, npolls, histVars, uiVars>>
\* everything a step of the session, the engine or a pipeline leaves alone
imgVars == <<imgPc, imgData, br, imgRecord>>
pktVars == <<pktPc, videoCodecData, pkt, data>>
\* what the engine leaves alone of it
startVars == <<startPc, startFmt, startErr>>
joinVars == <<contexts, registry>>
auxRest == <<apiVars, imgVars, pktVars, startVars, joinVars>>
auxVars == <<auxRest, resBody>>
vars == <<coreVars, auxVars>>

\* A slot of the double buffer: a nil pointer, or an object holding frame
\* number `frame` (0 when its Header/Img/AlphaImg are cleared or unfilled).
NilSlot == [alloc |-> FALSE, frame |-> 0]

\* A UI task that has not been launched. format and uri are the arguments
\* uiStreamRoutine is launched with (uri empty before the launch).
UIIdle == [pc |-> "idle", kind |-> "", format |-> "", uri |-> <<>>, stopped |-> FALSE,
           child |-> "none", errChan |-> <<>>, err |-> NoErr,
           readIndex |-> -1, writeIndex |-> 0,
           slots |-> <<NilSlot, NilSlot>>, nextFrame |-> 1,
           delivered |-> 0, acks |-> 0, sawStop |-> FALSE]

\* A UIImage with nothing in it (Header nil, Img and AlphaImg nil).
NilImage == [Header |-> <<>>, Img |-> <<>>, AlphaImg |-> <<>>]

\* An application task outside any call. req is the HTTP request the call
\* issued (empty when none), child the task running client.Do, errChan the
\* channel it answers on, status the response's status, respBody the state of
\* the response body, ret the error the call returned, tmp and rid the locals
\* of getRequestId, args the arguments of a SessionSendEvent call.
ApiIdle == [pc |-> "idle", op |-> "", args |-> <<>>, req |-> <<>>, child |-> "none",
            errChan |-> <<>>, status |-> 0, respBody |-> "none", ret |-> NoErr,
            tmp |-> 0, rid |-> 0]

Init ==
    /\ fgPc = "init" /\ fgRet = "" /\ fgErr = NoErr /\ fgArg = ""
    /\ isUIStreaming = FALSE
    /\ shouldStopSession = "open"
    /\ shouldStopUI = 0
    /\ isDone = <<>>
    /\ sessionIdToCtx = {}
    /\ sidOk = TRUE
    /\ appf = TRUE
    /\ ctlPc = "notStarted"
    /\ shouldReset = FALSE
    /\ postMessage = <<>>
    /\ errChan = <<>>
    /\ httpRes = <<>>
    /\ body = <<>>
    /\ ctlChild = "none"
    /\ ctlErr = NoErr
    /\ npolls = 0
    /\ curPoll = <<>>
    /\ rxBody = <<>>
    /\ ctlAcks = 0
    /\ stopAckBy = ""
    /\ stopDuringPoll = FALSE
    /\ ui = [t \in UITasks |-> UIIdle]
    /\ uiCount = 0
    /\ api = [t \in ApiTasks |-> ApiIdle]
    /\ apiCalls = 0
    /\ globalRequestId = 0
    /\ imgPc = "idle" /\ imgData = NilImage /\ br = <<>> /\ imgRecord = <<>>
    /\ pktPc = "idle" /\ videoCodecData = "" /\ pkt = <<>> /\ data = <<>>
    /\ resBody = "none"
    /\ startPc = "idle" /\ startFmt = "" /\ startErr = NoErr
    /\ contexts = <<>> /\ registry = [id \in SessionIds |-> 0]
\* ------------------------------------------------- control-channel messages
\* Nums holds the texts of the numeric fields of setRect (X, Y, Width,
\* Height) and removeBufferRange (Start, End), in the order they are parsed.
NoFields == [Service |-> "", RequestId |-> 0, PayloadSize |-> "", Time |-> "", Nums |-> <<>>]

\* A body without the "\n\n" sentinel.
NoSentinelBody == [sentinel |-> FALSE, hdr |-> "garbage", req |-> NoFields, payloadLen |-> 0]
\* A body that starts with the sentinel, followed by n bytes.
KeepAliveBody(n) == [sentinel |-> TRUE, hdr |-> "", req |-> NoFields, payloadLen |-> n]
\* A header that is not JSON (or not a JSON object of string fields).
BadJsonBody == [sentinel |-> TRUE, hdr |-> "garbage", req |-> NoFields, payloadLen |-> 0]
\* A request: JSON header, sentinel, n payload bytes.
ReqBody(svc, rid, psize, tm, n) ==
    [sentinel |-> TRUE, hdr |-> "json",
     req |-> [Service |-> svc, RequestId |-> rid, PayloadSize |-> psize, Time |-> tm,
              Nums |-> <<>>],
     payloadLen |-> n]
\* A request without payload whose numeric fields hold the texts nums.
ReqNums(svc, rid, nums) ==
    [sentinel |-> TRUE, hdr |-> "json",
     req |-> [Service |-> svc, RequestId |-> rid, PayloadSize |-> "", Time |-> "",
              Nums |-> nums],
     payloadLen |-> 0]

\* The bodies the server sends in answer to poll number rid: the few of the
\* session specification, and the full menu of the control-channel specification.
SessionBodies(rid) ==
    {NoSentinelBody, KeepAliveBody(0), BadJsonBody, ReqBody("play", rid, "", "", 0)}
ControlBodies(rid) ==
    {NoSentinelBody, KeepAliveBody(0), KeepAliveBody(1), BadJsonBody,
     ReqBody("play", rid, "", "", 0), ReqBody("play", rid, "1", "", 1),
     ReqBody("play", rid, "2", "", 1), ReqBody("play", rid, "x", "", 1),
     ReqBody("play", rid, "", "", 1), ReqBody("play", rid, "1", "", 0),
     ReqBody("seek", rid, "", "1.5", 0), ReqBody("seek", rid, "", "NaNx", 0),
     ReqBody("getSeekable", rid, "", "", 0), ReqBody("nosuch", rid, "", "", 0),
     ReqNums("setRect", rid, <<"1", "2", "1", "2">>),
     ReqNums("setRect", rid, <<"1", "2", "x", "y">>),
     ReqNums("removeBufferRange", rid, <<"1.5", "NaNx">>),
     ReqBody("getPaused", rid, "", "", 0), ReqBody("loadResource", rid, "", "", 0),
     ReqBody("getBuffered", rid, "", "", 0)}

\* What the transport hands back for one POST: a transport error, or a
\* response with a status, a content type, and a body whose read may fail.
TransportError == [err |-> ErrHttp, status |-> "", ctype |-> "", readOk |-> FALSE,
                   body |-> NoSentinelBody]
Response(st, ct, ok, b) == [err |-> NoErr, status |-> st, ctype |-> ct, readOk |-> ok, body |-> b]
ServerResponses(bodies) ==
    {TransportError,
     Response("500", "text/json", TRUE, KeepAliveBody(0)),
     Response("200", "text/html", TRUE, KeepAliveBody(0)),
     Response("200", "text/json", FALSE, KeepAliveBody(0))}
    \cup {Response("200", "text/json", TRUE, b) : b \in bodies}

\* bytes.Index(body, "\n\n"): negative without a sentinel, 0 for an empty
\* header, positive otherwise.
jsonEndPos(b) == IF ~b.sentinel THEN -1 ELSE IF b.hdr = "" THEN 0 ELSE 1

\* json.Unmarshal of the header into controlChannelRequest succeeds.
UnmarshalOk(b) == b.hdr = "json"

\* strconv.ParseUint(s, 10, 0): -1 stands for a parse error.
ParseUint(s) == CASE s = "0" -> 0 [] s = "1" -> 1 [] s = "2" -> 2 [] OTHER -> -1

\* strconv.ParseFloat(s, 64) succeeds.
ParseFloatOk(s) == s = "1.5"

\* The payload size check of controlChannelRun: TRUE when the message passes.
PayloadSizeOk(b) ==
    IF b.req.PayloadSize # "" \/ b.payloadLen > 0
    THEN ParseUint(b.req.PayloadSize) >= 0 /\ ParseUint(b.req.PayloadSize) = b.payloadLen
    ELSE TRUE

\* loadResource requests are modelled with an empty resourceId (no byte range
\* or sequence number is parsed, no bufferId is returned).
KnownServices ==
    {"play", "seek", "getPaused", "getSeekable", "getBuffered", "setRect", "removeBufferRange",
     "loadResource"}

\* No service-specific result field.
NoResultFields == [n \in {} |-> ""]

\* marshalRPCResponse: the response built from the result map (request id and
\* the service's fields), the result payload (empty for nil, else a sequence
\* holding the payload's bytes) and an error text (a sequence of strings,
\* empty for nil). payloadSize is empty when the header has none; payload is
\* the bytes appended to the header.
marshalRPCResponse(result, resultPayload, respErr) ==
    [requestId |-> result.requestId,
     result |-> IF respErr = <<>> THEN "OK" ELSE "ERROR",
     message |-> respErr,
     fields |-> result.fields,
     payloadSize |-> IF respErr = <<>> /\ resultPayload # <<>>
                     THEN <<Len(resultPayload[1])>> ELSE <<>>,
     payload |-> IF resultPayload = <<>> THEN <<>> ELSE resultPayload[1]]

\* The numeric fields processRPCRequest parses for a request, in the order it
\* parses them, each with its text and the parser used on it.
NumericFields(req) ==
    CASE req.Service = "seek" -> <<[text |-> req.Time, float |-> TRUE]>>
      [] req.Service = "setRect" ->
            [i \in 1..Len(req.Nums) |-> [text |-> req.Nums[i], float |-> FALSE]]
      [] req.Service = "removeBufferRange" ->
            [i \in 1..Len(req.Nums) |-> [text |-> req.Nums[i], float |-> TRUE]]
      [] OTHER -> <<>>

\* The parser used on a numeric field accepts its text.
FieldParses(f) == IF f.float THEN ParseFloatOk(f.text) ELSE ParseUint(f.text) >= 0

\* The error text of a numeric field that fails to parse.
ParseError(f) ==
    <<IF f.float THEN "Failed to parse float: " ELSE "Failed to parse integer: ", f.text>>

\* A processRPCRequest that sends every request of a known service to the listener.
EarlyErrorUnknownOnly(req) ==
    IF req.Service \notin KnownServices THEN <<"Unknown service: ", req.Service>> ELSE <<>>

\* A processRPCRequest whose final branch reports no error.
EarlyErrorParseOnly(req) ==
    LET fs == NumericFields(req)
        bad == {i \in 1..Len(fs) : ~FieldParses(fs[i])}
    IN IF bad = {} THEN <<>>
       ELSE ParseError(fs[CHOOSE i \in bad : \A j \in bad : i <= j])

\* processRPCRequest before the listener is invoked: the error that makes it
\* answer at once without calling the listener (empty when the listener is
\* called): an unknown service, or the first numeric field that fails to parse.
EarlyError(req) ==
    IF req.Service \notin KnownServices THEN <<"Unknown service: ", req.Service>>
    ELSE LET fs == NumericFields(req)
             bad == {i \in 1..Len(fs) : ~FieldParses(fs[i])}
         IN IF bad = {} THEN <<>>
            ELSE ParseError(fs[CHOOSE i \in bad : \A j \in bad : i <= j])

\* What the listener may return for a service: success, an error, for
\* getSeekable a result holding a NaN, which json.Marshal refuses, for
\* loadResource a success with a payload, and for getBuffered a success that
\* left Start or End nil, filled arrays of different lengths, or filled a
\* range that ends before it starts.
ListenerOutcomes(svc) ==
    {"ok", "err"} \cup (IF svc = "getSeekable" THEN {"nan"} ELSE {})
                  \cup (IF svc = "loadResource" THEN {"okPayload"} ELSE {})
                  \cup (IF svc = "getBuffered" THEN {"nilRanges", "uneven", "reversed"} ELSE {})

\* The error processRPCRequest holds after the listener call (empty for nil).
\* The outcome "nil" stands for a nil listener: no call is made.
ListenerError(o) == IF o = "err" THEN <<ErrListener>> ELSE <<>>

\* A processRPCRequest that fills the result map whatever the listener returned.
ResultFieldsDespiteError(svc, o) ==
    CASE svc = "getPaused" -> [n \in {"paused"} |-> "0"]
      [] svc = "getSeekable" -> [n \in {"start", "end"} |-> "null"]
      [] svc = "loadResource" -> [n \in {"code", "headers"} |-> ""]
      [] OTHER -> NoResultFields

\* The Start and End arrays the listener left in the GetBufferedResult.
BufferedResult(o) ==
    CASE o = "uneven" -> [start |-> <<1, 3>>, end |-> <<2>>]
      [] o = "reversed" -> [start |-> <<2>>, end |-> <<1>>]
      [] OTHER -> [start |-> <<1>>, end |-> <<2>>]

\* The fields processRPCRequest puts in the result map for a service after the
\* outcome o of the listener call; without a listener the values are
\* the zero values of the locals.
ResultFields(svc, o) ==
    IF o = "err" THEN NoResultFields
    ELSE CASE svc = "getPaused" -> [n \in {"paused"} |-> IF o = "nil" THEN "0" ELSE "1"]
           [] svc = "getSeekable" ->
                 [n \in {"start", "end"} |-> IF o = "nil" THEN "null" ELSE "[1.5]"]
           [] svc = "loadResource" /\ o # "nil" -> [n \in {"code", "headers"} |-> "200"]
           [] svc = "getBuffered" /\ o \notin {"nil", "nilRanges"} ->
                 [n \in {"start", "end"} |-> BufferedResult(o)[n]]
           [] OTHER -> NoResultFields

\* The result payload after the listener call: only loadResource sets one.
ResultPayload(svc, o) ==
    IF svc = "loadResource" /\ o = "okPayload" THEN << <<7>> >> ELSE <<>>

\* postMessage after the listener call returned outcome o for request req:
\* the marshalled response, or nil when json.Marshal fails.
ResponseAfterListener(req, o) ==
    IF o = "nan" THEN <<>>
    ELSE <<marshalRPCResponse([requestId |-> req.RequestId,
                               fields |-> ResultFields(req.Service, o)],
                              ResultPayload(req.Service, o), ListenerError(o))>>

\* --------------------------------------------------- the foreground caller
\* A failed start that registers the session id and spawns the engine.
SessionStartFailSpawns ==
    /\ fgPc = "init"
    /\ fgErr' = ErrHttp
    /\ sessionIdToCtx' = sessionIdToCtx \cup {"sid"}
    /\ ctlPc' = "loop"
    /\ shouldReset' = TRUE
    /\ UNCHANGED <<auxVars, fgPc, fgRet, fgArg, isUIStreaming, shouldStopSession, shouldStopUI,
                   isDone, sidOk, appf, postMessage, errChan, httpRes, body, ctlChild, ctlErr,
                   npolls, histVars, uiVars>>

\* SessionStart: the start GET fails (nil context, nothing registered, no task).
SessionStartFail ==
    /\ fgPc = "init"
    /\ fgErr' = ErrHttp
    /\ UNCHANGED <<auxVars, fgPc, fgRet, fgArg, ctxVars, ctlVars, npolls, histVars, uiVars>>

\* SessionStart: the start GET succeeds; the context is created with its three
\* channels, registered, and the control-channel task is spawned. ok (one of
\* oks) tells whether the server's session id yields a control URL that
\* http.NewRequest accepts; listener (one of listeners) tells whether the
\* caller passed a listener or nil.
SessionStartOk(oks, listeners) ==
    /\ fgPc = "init"
    /\ \E ok \in oks : sidOk' = ok
    /\ \E listener \in listeners : appf' = listener
    /\ sessionIdToCtx' = sessionIdToCtx \cup {"sid"}
    /\ isUIStreaming' = FALSE
    /\ shouldStopSession' = "open"
    /\ shouldStopUI' = 0
    /\ isDone' = <<>>
    /\ ctlPc' = "loop"
    /\ shouldReset' = TRUE
    /\ postMessage' = <<>>
    /\ fgPc' = "ready"
    /\ fgErr' = NoErr
    /\ UNCHANGED <<auxVars, fgRet, fgArg, errChan, httpRes, body, ctlChild, ctlErr, npolls, histVars, uiVars>>

\* A SessionUIStreamStart that goes by the format alone.
StartRefusalByFormat(f, streaming) == SessionGetUIURLErr(f)

\* The error SessionUIStreamStart returns for format f on a context whose
\* isUIStreaming is `streaming` ("" when it launches the pipeline): the error
\* of SessionGetUIURL first, then the isUIStreaming check.
StartRefusal(f, streaming) ==
    IF SessionGetUIURLErr(f) # NoErr THEN SessionGetUIURLErr(f)
    ELSE IF streaming THEN ErrAlreadyStreaming
    ELSE NoErr

\* SessionUIStreamStart, called with one of formats: it returns its error, or
\* sets the flag and launches uiStreamRoutine (at most maxStreams launches
\* are explored).
UIStreamStart(formats, maxStreams) ==
    /\ fgPc = "ready"
    /\ \E f \in formats :
         /\ fgArg' = f
         /\ fgErr' = StartRefusal(f, isUIStreaming)
         /\ IF StartRefusal(f, isUIStreaming) # NoErr
            THEN UNCHANGED <<auxVars, isUIStreaming, uiVars>>
            ELSE /\ uiCount < maxStreams
                 /\ isUIStreaming' = TRUE
                 /\ ui' = [ui EXCEPT ![uiCount + 1] =
                             [UIIdle EXCEPT !.pc = "get", !.format = f,
                                            !.uri = <<SessionGetUIURL(f)>>,
                                            !.kind = IF f \in AllowedImageFmt
                                                     THEN "image" ELSE "video"]]
                 /\ uiCount' = uiCount + 1
    /\ fgPc' = "returned"
    /\ UNCHANGED <<auxVars, fgRet, shouldStopSession, shouldStopUI, isDone, sessionIdToCtx, sidOk, appf,
                   ctlVars, npolls, histVars>>

\* The caller has looked at the result of a call and goes on.
Continue ==
    /\ fgPc = "returned"
    /\ fgPc' = "ready"
    /\ fgErr' = NoErr
    /\ fgArg' = ""
    /\ UNCHANGED <<auxVars, fgRet, ctxVars, ctlVars, npolls, histVars, uiVars>>

\* The caller invokes SessionUIStreamStop.
UIStreamStopCall ==
    /\ fgPc = "ready"
    /\ fgPc' = "uiStopCheck"
    /\ fgRet' = "returned"
    /\ UNCHANGED <<auxVars, fgErr, fgArg, ctxVars, ctlVars, npolls, histVars, uiVars>>

\* SessionUIStreamStop: the isUIStreaming check fails.
UIStreamStopNotStreaming ==
    /\ fgPc = "uiStopCheck"
    /\ ~isUIStreaming
    /\ fgPc' = fgRet
    /\ fgRet' = ""
    /\ fgErr' = IF fgRet = "returned" THEN ErrNotStreaming ELSE fgErr
    /\ UNCHANGED <<auxVars, fgArg, ctxVars, ctlVars, npolls, histVars, uiVars>>

\* SessionUIStreamStop: the isUIStreaming check passes.
UIStreamStopCheck ==
    /\ fgPc = "uiStopCheck"
    /\ isUIStreaming
    /\ fgPc' = "uiStopSend"
    /\ UNCHANGED <<auxVars, fgRet, fgErr, fgArg, ctxVars, ctlVars, npolls, histVars, uiVars>>

\* SessionUIStreamStop: ctx.shouldStopUI <- true (blocks while the buffer is full).
UIStreamStopSend ==
    /\ fgPc = "uiStopSend"
    /\ shouldStopUI = 0
    /\ shouldStopUI' = 1
    /\ fgPc' = "uiStopWait"
    /\ UNCHANGED <<auxVars, fgRet, fgErr, fgArg, isUIStreaming, shouldStopSession, isDone, sessionIdToCtx, sidOk, appf,
                   ctlVars, npolls, histVars, uiVars>>

\* SessionUIStreamStop: <-ctx.isDone, then return nil.
UIStreamStopWait ==
    /\ fgPc = "uiStopWait"
    /\ isDone # <<>>
    /\ isDone' = <<>>
    /\ fgPc' = fgRet
    /\ fgRet' = ""
    /\ fgErr' = NoErr
    /\ UNCHANGED <<auxVars, fgArg, isUIStreaming, shouldStopSession, shouldStopUI, sessionIdToCtx, sidOk, appf,
                   ctlVars, npolls, histVars, uiVars>>

\* SessionStop is called: it reads isUIStreaming and, when set, calls
\* SessionUIStreamStop (whose result it ignores).
SessionStopCall ==
    /\ fgPc = "ready"
    /\ IF isUIStreaming
       THEN fgPc' = "uiStopCheck" /\ fgRet' = "stopClose"
       ELSE fgPc' = "stopClose" /\ fgRet' = fgRet
    /\ stopDuringPoll' = (ctlPc = "waitHttp" /\ ctlChild = "http")
    /\ UNCHANGED <<auxVars, fgErr, fgArg, ctxVars, ctlVars, npolls, curPoll, rxBody, ctlAcks, stopAckBy, uiVars>>

\* SessionStop: close(ctx.shouldStopSession).
SessionStopClose ==
    /\ fgPc = "stopClose"
    /\ shouldStopSession = "open"
    /\ shouldStopSession' = "closed"
    /\ fgPc' = "stopWait"
    /\ UNCHANGED <<auxVars, fgRet, fgErr, fgArg, isUIStreaming, shouldStopUI, isDone, sessionIdToCtx, sidOk, appf,
                   ctlVars, npolls, histVars, uiVars>>

\* SessionStop: <-ctx.isDone.
SessionStopWait ==
    /\ fgPc = "stopWait"
    /\ isDone # <<>>
    /\ stopAckBy' = isDone[1]
    /\ isDone' = <<>>
    /\ fgPc' = "stopGet"
    /\ UNCHANGED <<auxVars, fgRet, fgErr, fgArg, isUIStreaming, shouldStopSession, shouldStopUI, sessionIdToCtx,
                   sidOk, appf, ctlVars, npolls, curPoll, rxBody, ctlAcks, stopDuringPoll, uiVars>>

\* SessionStop: GET /osb/session/stop, then return its result.
SessionStopGet ==
    /\ fgPc = "stopGet"
    /\ \E e \in {NoErr, ErrHttp} : fgErr' = e
    /\ fgPc' = "stopReturned"
    /\ UNCHANGED <<auxVars, fgRet, fgArg, ctxVars, ctlVars, npolls, histVars, uiVars>>

\* ------------------------------------------------------ controlChannelRun
StopRequested == shouldStopSession = "closed"

\* tr.CancelRequest(httpReq) on a request whose response body is in state x:
\* the connection is torn down, Close is not called.
CancelRequest(x) == IF x = "open" THEN "cancelled" ELSE x

\* httpRes.Body.Close() on a body in state x.
CloseBody(x) == IF x = "open" THEN "closed" ELSE IF x = "closed" THEN "closedTwice" ELSE x

\* A reset flag that outlives the poll it was set for.
ResetKept == shouldReset

\* The value of shouldReset after the URL of a poll has been built.
ResetAfterPoll == FALSE

\* An exit path of controlChannelRun: `ctx.isDone <- true` then return e. The
\* locals of the function are dead from here on; the body that made the
\* engine leave, if one did, stays on record until the ack is sent.
ControlReturn(e) ==
    /\ ctlPc' = "sendDone"
    /\ ctlErr' = e
    /\ shouldReset' = FALSE
    /\ postMessage' = <<>>
    /\ errChan' = <<>>
    /\ httpRes' = <<>>
    /\ body' = <<>>
    /\ ctlChild' = "none"
    /\ curPoll' = <<>>
    /\ rxBody' = IF ctlPc = "decode" THEN body ELSE <<>>

\* Top of the loop: build the URL (with reset=1 when shouldReset), create the
\* POST carrying postMessage and hand it to a child task.
ControlPoll ==
    /\ ctlPc = "loop"
    /\ sidOk
    /\ curPoll' = <<[reset |-> shouldReset, body |-> postMessage]>>
    /\ shouldReset' = ResetAfterPoll
    /\ npolls' = npolls + 1
    /\ ctlChild' = "http"
    /\ ctlPc' = "waitHttp"
    /\ resBody' = "none"
    /\ UNCHANGED <<auxRest, fgVars, ctxVars, postMessage, errChan, httpRes, body, ctlErr,
                   rxBody, ctlAcks, stopAckBy, stopDuringPoll, uiVars>>

\* http.NewRequest refuses the control URL: ack and return.
ControlNewRequestFail ==
    /\ ctlPc = "loop"
    /\ ~sidOk
    /\ ControlReturn(ErrControl)
    /\ UNCHANGED <<auxRest, resBody, fgVars, ctxVars, npolls, ctlAcks, stopAckBy, stopDuringPoll, uiVars>>

\* The child task of the POST: client.Do returns r, the child stores httpRes and
\* err and sends err on errChan. The server answers maxPolls polls.
HttpChildDone(bodies, maxPolls) ==
    /\ ctlPc = "waitHttp"
    /\ ctlChild = "http"
    /\ npolls <= maxPolls
    /\ \E r \in ServerResponses(bodies) :
         /\ httpRes' = <<r>>
         /\ errChan' = <<r.err>>
         /\ resBody' = IF r.err = NoErr THEN "open" ELSE "none"
    /\ ctlChild' = "none"
    /\ UNCHANGED <<auxRest, fgVars, ctxVars, ctlPc, shouldReset, postMessage, body, ctlErr,
                   npolls, histVars, uiVars>>

\* The error controlChannelRun returns on a shutdown path: ErrInterrupted is
\* assigned by the engine while a child still in flight assigns the same
\* variable without synchronisation.
InterruptedResults ==
    IF ctlChild = "none" THEN {ErrInterrupted} ELSE {ErrInterrupted, ErrControl, NoErr}

\* First select, case <-ctx.shouldStopSession: cancel the request, ack, return.
ControlStopDuringHttp ==
    /\ ctlPc = "waitHttp"
    /\ StopRequested
    /\ \E e \in InterruptedResults : ControlReturn(e)
    /\ resBody' = CancelRequest(resBody)
    /\ UNCHANGED <<auxRest, fgVars, ctxVars, npolls, ctlAcks, stopAckBy, stopDuringPoll, uiVars>>

\* First select, case err = <-errChan, followed by the status and content-type
\* checks; a good response is read by a second child task.
ControlHttpResult ==
    /\ ctlPc = "waitHttp"
    /\ errChan # <<>>
    /\ LET r == httpRes[1] IN
       IF errChan[1] # NoErr THEN ControlReturn(ErrControl) /\ UNCHANGED resBody
       ELSE IF r.status # "200" THEN ControlReturn(ErrControl) /\ resBody' = CloseBody(resBody)
       ELSE IF r.ctype # "text/json"
       THEN ControlReturn(ErrControl) /\ resBody' = CloseBody(resBody)
       ELSE /\ ctlPc' = "waitRead"
            /\ ctlChild' = "read"
            /\ errChan' = <<>>
            /\ UNCHANGED <<resBody, ctlErr, shouldReset, postMessage, httpRes, body, curPoll, rxBody>>
    /\ UNCHANGED <<auxRest, fgVars, ctxVars, npolls, ctlAcks, stopAckBy, stopDuringPoll, uiVars>>

\* The child task of ioutil.ReadAll: stores body and err, sends err on errChan.
ReadChildDone ==
    /\ ctlPc = "waitRead"
    /\ ctlChild = "read"
    /\ IF httpRes[1].readOk
       THEN body' = <<httpRes[1].body>> /\ errChan' = <<NoErr>>
       ELSE body' = <<>> /\ errChan' = <<ErrRead>>
    /\ ctlChild' = "none"
    /\ httpRes' = <<>>
    /\ UNCHANGED <<auxRest, resBody, fgVars, ctxVars, ctlPc, shouldReset, postMessage, ctlErr,
                   npolls, histVars, uiVars>>

\* Second select, case <-ctx.shouldStopSession: close the body, ack, return.
ControlStopDuringRead ==
    /\ ctlPc = "waitRead"
    /\ StopRequested
    /\ \E e \in InterruptedResults : ControlReturn(e)
    /\ resBody' = CloseBody(resBody)
    /\ UNCHANGED <<auxRest, fgVars, ctxVars, npolls, ctlAcks, stopAckBy, stopDuringPoll, uiVars>>

\* Second select, case err = <-errChan.
ControlReadResult ==
    /\ ctlPc = "waitRead"
    /\ errChan # <<>>
    /\ IF errChan[1] # NoErr
       THEN ControlReturn(ErrControl) /\ resBody' = CloseBody(resBody)
       ELSE /\ ctlPc' = "decode"
            /\ errChan' = <<>>
            /\ UNCHANGED <<resBody, ctlErr, shouldReset, postMessage, httpRes, body, ctlChild,
                           curPoll, rxBody>>
    /\ UNCHANGED <<auxRest, fgVars, ctxVars, npolls, ctlAcks, stopAckBy, stopDuringPoll, uiVars>>

\* The outcomes of decoding a body: where the engine goes (pc), the error it
\* returns with, the next postMessage, and the next shouldReset.
\* A missing sentinel taken for a per-message failure.
DecodeMissingSentinelSkipped ==
    [pc |-> "loop", err |-> NoErr, post |-> <<>>, reset |-> TRUE]
\* A missing sentinel that ends the engine without the ack.
DecodeMissingSentinelNoAck ==
    [pc |-> "exited", err |-> ErrControl, post |-> <<>>, reset |-> FALSE]
\* The body has no sentinel: fatal.
DecodeMissingSentinel ==
    [pc |-> "sendDone", err |-> ErrControl, post |-> <<>>, reset |-> FALSE]
\* A keep-alive taken for a decode failure.
DecodeKeepAliveAsFailure ==
    [pc |-> "loop", err |-> NoErr, post |-> <<>>, reset |-> TRUE]
\* The body starts with the sentinel: a keep-alive.
DecodeKeepAlive ==
    [pc |-> "loop", err |-> NoErr, post |-> <<>>, reset |-> shouldReset]
\* A parse failure that leaves the previous response in postMessage.
DecodeBadJsonKeepsResponse ==
    IF StopRequested
    THEN [pc |-> "sendDone", err |-> ErrInterrupted, post |-> <<>>, reset |-> FALSE]
    ELSE [pc |-> "loop", err |-> NoErr, post |-> postMessage, reset |-> TRUE]
\* The header does not parse: leave when shutdown was requested, else reset.
DecodeBadJson ==
    IF StopRequested
    THEN [pc |-> "sendDone", err |-> ErrInterrupted, post |-> <<>>, reset |-> FALSE]
    ELSE [pc |-> "loop", err |-> NoErr, post |-> <<>>, reset |-> TRUE]
\* A size mismatch taken for a fatal error.
DecodeSizeMismatchFatal ==
    [pc |-> "sendDone", err |-> ErrControl, post |-> <<>>, reset |-> FALSE]
\* A size mismatch that leaves the previous response in postMessage.
DecodeSizeMismatchKeepsResponse ==
    [pc |-> "loop", err |-> NoErr, post |-> postMessage, reset |-> shouldReset]
\* The payload size is unparseable or differs from the bytes received.
DecodeSizeMismatch ==
    [pc |-> "loop", err |-> NoErr, post |-> <<>>, reset |-> shouldReset]
\* processRPCRequest answers without calling the listener.
DispatchEarlyError(req) ==
    [pc |-> "loop", err |-> NoErr,
     post |-> <<marshalRPCResponse([requestId |-> req.RequestId, fields |-> NoResultFields],
                                   <<>>, EarlyError(req))>>,
     reset |-> shouldReset]
\* A processRPCRequest that reports the missing listener as an error.
DispatchNoListenerRefused(req) ==
    [pc |-> "loop", err |-> NoErr, post |-> ResponseAfterListener(req, "err"),
     reset |-> shouldReset]
\* processRPCRequest with a nil listener: no call, the response is built from
\* the zero values.
DispatchNoListener(req) ==
    [pc |-> "loop", err |-> NoErr, post |-> ResponseAfterListener(req, "nil"),
     reset |-> shouldReset]
\* processRPCRequest calls the listener.
DispatchToListener ==
    [pc |-> "listener", err |-> NoErr, post |-> postMessage, reset |-> shouldReset]

\* The paths through the decoding of body b that call httpRes.Body.Close()
\* before the engine goes on: all but the parse failure without a shutdown
\* request, and the listener call, after which the body is closed.
ClosedAfterDecode(b) ==
    IF jsonEndPos(b) <= 0 THEN TRUE
    ELSE IF ~UnmarshalOk(b) THEN StopRequested
    ELSE IF ~PayloadSizeOk(b) THEN TRUE
    ELSE IF EarlyError(b.req) # <<>> THEN TRUE
    ELSE ~appf

Decode(b) ==
    IF jsonEndPos(b) < 0 THEN DecodeMissingSentinel
    ELSE IF jsonEndPos(b) = 0 THEN DecodeKeepAlive
    ELSE IF ~UnmarshalOk(b) THEN DecodeBadJson
    ELSE IF ~PayloadSizeOk(b) THEN DecodeSizeMismatch
    ELSE IF EarlyError(b.req) # <<>> THEN DispatchEarlyError(b.req)
    ELSE IF ~appf THEN DispatchNoListener(b.req)
    ELSE DispatchToListener

\* The body has been read: look for the sentinel, parse the header, check the
\* payload size and hand the request to processRPCRequest.
ControlDecode ==
    /\ ctlPc = "decode"
    /\ LET d == Decode(body[1]) IN
       IF d.pc = "sendDone" THEN ControlReturn(d.err)
       ELSE /\ ctlPc' = d.pc
            /\ postMessage' = d.post
            /\ shouldReset' = d.reset
            /\ rxBody' = body
            /\ body' = IF d.pc = "listener" THEN body ELSE <<>>
            /\ UNCHANGED <<ctlErr, errChan, httpRes, ctlChild, curPoll>>
    /\ resBody' = IF ClosedAfterDecode(body[1]) THEN CloseBody(resBody) ELSE resBody
    /\ UNCHANGED <<auxRest, fgVars, ctxVars, npolls, ctlAcks, stopAckBy, stopDuringPoll, uiVars>>

\* The listener call of processRPCRequest returns; the response is marshalled.
ControlListenerReturn ==
    /\ ctlPc = "listener"
    /\ \E o \in ListenerOutcomes(body[1].req.Service) :
         postMessage' = ResponseAfterListener(body[1].req, o)
    /\ ctlPc' = "loop"
    /\ body' = <<>>
    /\ resBody' = CloseBody(resBody)
    /\ UNCHANGED <<auxRest, fgVars, ctxVars, shouldReset, errChan, httpRes, ctlChild, ctlErr,
                   npolls, histVars, uiVars>>

\* The engine's blocked `ctx.isDone <- true` goes through, and it returns.
ControlSendDone ==
    /\ ctlPc = "sendDone"
    /\ isDone = <<>>
    /\ isDone' = <<"ctl">>
    /\ ctlAcks' = ctlAcks + 1
    /\ ctlPc' = "exited"
    /\ rxBody' = <<>>
    /\ resBody' = "none"
    /\ UNCHANGED <<auxRest, fgVars, isUIStreaming, shouldStopSession, shouldStopUI, sessionIdToCtx, sidOk, appf,
                   shouldReset, postMessage, errChan, httpRes, body, ctlChild, ctlErr,
                   npolls, curPoll, stopAckBy, stopDuringPoll, uiVars>>

\* ------------------------------------------- uiStreamRoutine and pipelines
\* Slot i (0 or 1) of the double buffer of task t.
Slot(t, i) == ui[t].slots[i + 1]

UIRunning(t) == ui[t].pc \in {"get", "top", "listener", "select"}

\* The response body of the UI stream is open: obtained and not yet closed.
ReaderOpen(t) == ui[t].pc \in {"top", "listener", "select"} /\ ~ui[t].sawStop

\* uiImageStream / uiVideoStream returns to uiStreamRoutine (the deferred
\* reader.Close() runs); the locals of the pipeline are dead from here on.
UIReturn(t) == ui' = [ui EXCEPT ![t] = [UIIdle EXCEPT !.pc = "exit", !.acks = ui[t].acks]]

\* httpGet races the GET against shouldStopUI: the stop token is taken.
UIGetStopped(t) ==
    /\ ui[t].pc = "get"
    /\ shouldStopUI = 1
    /\ shouldStopUI' = 0
    /\ UIReturn(t)
    /\ UNCHANGED <<auxVars, fgVars, isUIStreaming, shouldStopSession, isDone, sessionIdToCtx, sidOk, appf,
                   ctlVars, npolls, histVars, uiCount>>

\* httpGet fails: transport error or a status other than 200.
UIGetFail(t) ==
    /\ ui[t].pc = "get"
    /\ UIReturn(t)
    /\ UNCHANGED <<auxVars, fgVars, ctxVars, ctlVars, npolls, histVars, uiCount>>

\* httpGet returns the response body.
UIGetOk(t) ==
    /\ ui[t].pc = "get"
    /\ ui' = [ui EXCEPT ![t].pc = "top"]
    /\ UNCHANGED <<auxVars, fgVars, ctxVars, ctlVars, npolls, histVars, uiCount>>

\* Top of the loop: unless stopped, start the read of slot writeIndex in a
\* child task and hand slot readIndex to the listener.
UITop(t) ==
    /\ ui[t].pc = "top"
    /\ IF ui[t].stopped
       THEN ui' = [ui EXCEPT ![t].pc = "select"]
       ELSE IF ui[t].readIndex < 0
       THEN ui' = [ui EXCEPT ![t].pc = "select", ![t].child = "reading"]
       ELSE IF ui[t].kind = "image" /\ ~Slot(t, ui[t].readIndex).alloc
       THEN UIReturn(t)
       ELSE ui' = [ui EXCEPT ![t].pc = "listener", ![t].child = "reading",
                             ![t].delivered =
                                 IF Slot(t, ui[t].readIndex).frame > 0
                                 THEN Slot(t, ui[t].readIndex).frame ELSE @]
    /\ UNCHANGED <<auxVars, fgVars, ctxVars, ctlVars, npolls, histVars, uiCount>>

\* OnUIImageFrame / OnUIVideoFrame returns nil: err is assigned nil and (image
\* stream) the slot's Header, Img and AlphaImg are cleared.
UIListenerOk(t) ==
    /\ ui[t].pc = "listener"
    /\ ui' = [ui EXCEPT ![t].pc = "select", ![t].err = NoErr,
                        ![t].slots[ui[t].readIndex + 1] =
                            IF ui[t].kind = "image" THEN [alloc |-> TRUE, frame |-> 0] ELSE @]
    /\ UNCHANGED <<auxVars, fgVars, ctxVars, ctlVars, npolls, histVars, uiCount>>

\* The listener returns an error: the pipeline returns.
UIListenerErr(t) ==
    /\ ui[t].pc = "listener"
    /\ UIReturn(t)
    /\ UNCHANGED <<auxVars, fgVars, ctxVars, ctlVars, npolls, histVars, uiCount>>

\* A read index that stays on the first slot.
NextReadIndexFixed(t) == 0

\* A read index that lands on the slot filled next.
NextReadIndexOfNextWrite(t) == 1 - ui[t].writeIndex

\* The end of a round of the loop: readIndex = writeIndex.
NextReadIndex(t) == ui[t].writeIndex

\* A stop signal that leaves `stopped` unset.
StoppedNotSet == FALSE

\* The value of `stopped` once the stop signal has been received in the loop.
StoppedAfterSignal == TRUE

\* select, case <-ctx.shouldStopUI: close the reader, set stopped, swap indices.
UISelectStop(t) ==
    /\ ui[t].pc = "select"
    /\ shouldStopUI = 1
    /\ shouldStopUI' = 0
    /\ ui' = [ui EXCEPT ![t].pc = "top",
                        ![t].stopped = StoppedAfterSignal, ![t].sawStop = TRUE,
                        ![t].readIndex = NextReadIndex(t),
                        ![t].writeIndex = 1 - ui[t].writeIndex]
    /\ UNCHANGED <<auxVars, fgVars, isUIStreaming, shouldStopSession, isDone, sessionIdToCtx, sidOk, appf,
                   ctlVars, npolls, histVars, uiCount>>

\* select, case err = <-errChan: return on an error, else swap indices.
UISelectErr(t) ==
    /\ ui[t].pc = "select"
    /\ ui[t].errChan # <<>>
    /\ IF ui[t].errChan[1] # NoErr
       THEN UIReturn(t)
       ELSE ui' = [ui EXCEPT ![t].pc = "top", ![t].errChan = <<>>, ![t].err = NoErr,
                             ![t].readIndex = NextReadIndex(t),
                             ![t].writeIndex = 1 - ui[t].writeIndex]
    /\ UNCHANGED <<auxVars, fgVars, ctxVars, ctlVars, npolls, histVars, uiCount>>

\* The child task: readImage / demuxer.ReadPacket completes a frame; err is
\* assigned nil and the frame is stored in slot writeIndex.
UIChildReadOk(t, maxFrames) ==
    /\ UIRunning(t)
    /\ ui[t].child = "reading"
    /\ ReaderOpen(t)
    /\ ui[t].nextFrame <= maxFrames
    /\ ui' = [ui EXCEPT ![t].child = "sending", ![t].err = NoErr,
                        ![t].slots[ui[t].writeIndex + 1] =
                            [alloc |-> TRUE, frame |-> ui[t].nextFrame],
                        ![t].nextFrame = ui[t].nextFrame + 1]
    /\ UNCHANGED <<auxVars, fgVars, ctxVars, ctlVars, npolls, histVars, uiCount>>

\* The child task: the read fails (transport error, or the reader was closed).
\* demuxer.ReadPacket stores its zero packet in slot writeIndex; readImage
\* leaves the slot as it was.
UIChildReadFail(t) ==
    /\ UIRunning(t)
    /\ ui[t].child = "reading"
    /\ ui' = [ui EXCEPT ![t].child = "sending",
                        ![t].err = ErrRead,
                        ![t].slots[ui[t].writeIndex + 1] =
                            IF ui[t].kind = "video" THEN [alloc |-> @.alloc, frame |-> 0]
                            ELSE @]
    /\ UNCHANGED <<auxVars, fgVars, ctxVars, ctlVars, npolls, histVars, uiCount>>

\* The child task: errChan <- err, with the value err holds at that moment.
UIChildSend(t) ==
    /\ UIRunning(t)
    /\ ui[t].child = "sending"
    /\ ui[t].errChan = <<>>
    /\ ui' = [ui EXCEPT ![t].child = "none", ![t].errChan = <<ui[t].err>>]
    /\ UNCHANGED <<auxVars, fgVars, ctxVars, ctlVars, npolls, histVars, uiCount>>

\* uiStreamRoutine after the pipeline returned: ctx.isUIStreaming = false.
UIExit(t) ==
    /\ ui[t].pc = "exit"
    /\ isUIStreaming' = FALSE
    /\ ui' = [ui EXCEPT ![t].pc = "sendDone"]
    /\ UNCHANGED <<auxVars, fgVars, shouldStopSession, shouldStopUI, isDone, sessionIdToCtx, sidOk, appf,
                   ctlVars, npolls, histVars, uiCount>>

\* uiStreamRoutine: ctx.isDone <- true.
UISendDone(t) ==
    /\ ui[t].pc = "sendDone"
    /\ isDone = <<>>
    /\ isDone' = <<"ui">>
    /\ ui' = [ui EXCEPT ![t].pc = "done", ![t].acks = ui[t].acks + 1]
    /\ UNCHANGED <<auxVars, fgVars, isUIStreaming, shouldStopSession, shouldStopUI, sessionIdToCtx, sidOk, appf,
                   ctlVars, npolls, histVars, uiCount>>

\* ------------------------------------------------------------ specifications
\* The formats of the session specification launch the video pipeline only.
SessionFormats == {"mp2t;h264", "jpeg", "bogus"}

SessionCalls ==
    \/ SessionStartFail
    \/ SessionStopCall \/ SessionStopClose \/ SessionStopWait \/ SessionStopGet

UIStreamCalls(formats, maxStreams) ==
    \/ UIStreamStart(formats, maxStreams) \/ Continue
    \/ UIStreamStopCall \/ UIStreamStopNotStreaming \/ UIStreamStopCheck
    \/ UIStreamStopSend \/ UIStreamStopWait

Control(bodies, maxPolls) ==
    \/ ControlPoll
    \/ HttpChildDone(bodies, maxPolls)
    \/ ControlStopDuringHttp \/ ControlHttpResult
    \/ ReadChildDone
    \/ ControlStopDuringRead \/ ControlReadResult
    \/ ControlDecode \/ ControlListenerReturn
    \/ ControlSendDone

UIPipeline(t, maxFrames) ==
    \/ UIGetStopped(t) \/ UIGetFail(t) \/ UIGetOk(t)
    \/ UITop(t) \/ UIListenerOk(t) \/ UIListenerErr(t)
    \/ UISelectStop(t) \/ UISelectErr(t)
    \/ UIChildReadOk(t, maxFrames) \/ UIChildReadFail(t) \/ UIChildSend(t)
    \/ UIExit(t) \/ UISendDone(t)

\* The whole session: caller, control channel, UI pipelines.
Next ==
    \/ SessionStartOk({TRUE}, {TRUE})
    \/ SessionCalls
    \/ UIStreamCalls(SessionFormats, MaxSessionUIStreams)
    \/ Control(SessionBodies(npolls), MaxSessionPolls)
    \/ \E t \in 1..MaxSessionUIStreams : UIPipeline(t, MaxSessionFrames)

Spec == Init /\ [][Next]_vars

\* The control channel alone, with the full menu of server messages: a session
\* is started, polls, and is stopped; no UI stream is started.
NextControl ==
    \/ SessionStartOk(BOOLEAN, BOOLEAN)
    \/ SessionCalls
    \/ ControlNewRequestFail
    \/ Control(ControlBodies(npolls), MaxPolls)

SpecControl == Init /\ [][NextControl]_vars

\* The UI pipelines alone, image and video, with longer streams: a session is
\* started and UI streams are started and stopped; the control channel waits
\* in its first poll.
NextUI ==
    \/ SessionStartOk({TRUE}, {TRUE})
    \/ UIStreamCalls(Formats, MaxUIStreams)
    \/ \E t \in UITasks : UIPipeline(t, MaxFrames)

SpecUI == Init /\ [][NextUI]_vars


\* ------------------------------------------------------------------ claims
\* A step in which the control channel hands a request to the listener.
RPCCallbackStep == ctlPc' = "listener" /\ ctlPc # "listener"

\* A step in which UI task t hands a frame to OnUIImageFrame / OnUIVideoFrame.
FrameCallbackStep(t) == ui'[t].pc = "listener" /\ ui[t].pc # "listener"

\* C1: once SessionStop has returned, no listener callback is invoked for the
\* session any more, neither a control-channel RPC nor a UI frame callback.
C1_NoCallbackAfterStop ==
    [][fgPc = "stopReturned" =>
          ~RPCCallbackStep /\ \A t \in UITasks : ~FrameCallbackStep(t)]_vars

\* C2: when SessionStop was called while the engine waited for its POST, the
\* final GET of SessionStop is issued only after the engine has sent its ack
\* and terminated.
C2_StopGetAfterEngineAck ==
    (stopDuringPoll /\ fgPc \in {"stopGet", "stopReturned"}) => ctlPc = "exited"

\* C3: each background task has sent on isDone exactly once when it has
\* exited, whatever the exit path, and not at all while it runs.
C3_AckOncePerTask ==
    /\ ctlAcks = (IF ctlPc = "exited" THEN 1 ELSE 0)
    /\ \A t \in UITasks : ui[t].acks = (IF ui[t].pc = "done" THEN 1 ELSE 0)

\* Both tasks of a session have exited, each with its one ack.
C3_Witness ==
    /\ ctlPc = "exited" /\ ctlAcks = 1
    /\ \E t \in UITasks : ui[t].pc = "done" /\ ui[t].acks = 1


\* The engine has issued a poll after having received and decoded a body:
\* curPoll is that poll and rxBody the body received just before it.
PollAfterBody == ctlPc = "waitHttp" /\ rxBody # <<>> /\ curPoll # <<>>

\* A body whose header is there and parses as a request.
HeaderParses(b) == jsonEndPos(b) > 0 /\ UnmarshalOk(b)

\* A per-message protocol error: a header that fails to parse, or a payload
\* size that is unparseable or differs from the bytes after the sentinel.
ProtocolError(b) == jsonEndPos(b) > 0 /\ (~UnmarshalOk(b) \/ ~PayloadSizeOk(b))

\* C4: after any per-message protocol error, the very next poll carries reset=1.
C4_ResetAfterProtocolError ==
    (PollAfterBody /\ ProtocolError(rxBody[1])) => curPoll[1].reset

\* C5: the first poll carries reset=1, and a poll that follows a decoded and
\* dispatched request or a keep-alive does not.
C5_ResetFirstPollOnly ==
    /\ (ctlPc = "waitHttp" /\ npolls = 1) => curPoll[1].reset
    /\ (PollAfterBody /\ (jsonEndPos(rxBody[1]) = 0
                          \/ (HeaderParses(rxBody[1]) /\ PayloadSizeOk(rxBody[1]))))
          => ~curPoll[1].reset

\* The second poll follows a dispatched request and carries no reset.
C5_Witness ==
    /\ PollAfterBody /\ npolls = 2
    /\ HeaderParses(rxBody[1]) /\ PayloadSizeOk(rxBody[1])
    /\ ~curPoll[1].reset

\* C6: a poll that carries a response carries the response to the request
\* received just before it (the request the server sent in answer to the
\* previous poll), so a response is posted with one poll only.
C6_ResponseWithNextPollOnly ==
    (ctlPc = "waitHttp" /\ curPoll # <<>> /\ curPoll[1].body # <<>>) =>
        /\ rxBody # <<>>
        /\ HeaderParses(rxBody[1]) /\ PayloadSizeOk(rxBody[1])
        /\ curPoll[1].body[1].requestId = rxBody[1].req.RequestId
        /\ curPoll[1].body[1].requestId = npolls - 1

\* The second poll carries the response to the request received in answer
\* to the first.
C6_Witness ==
    /\ PollAfterBody /\ npolls = 2
    /\ curPoll[1].body # <<>>
    /\ curPoll[1].body[1].requestId = 1

\* C7: every request with a parseable header is answered: the next poll
\* carries a response with the request's id and result OK or ERROR.
C7_EveryRequestAnswered ==
    (PollAfterBody /\ HeaderParses(rxBody[1])) =>
        /\ curPoll[1].body # <<>>
        /\ curPoll[1].body[1].requestId = rxBody[1].req.RequestId
        /\ curPoll[1].body[1].result \in {"OK", "ERROR"}

\* C8: on a keep-alive the engine calls no listener operation, goes on to the
\* next poll, leaves the reset flag unset, and sends that poll with an empty
\* body and without reset=1.
C8_KeepAlive ==
    [][/\ (ctlPc = "decode" /\ ctlPc' # "decode" /\ jsonEndPos(body[1]) = 0) =>
              ctlPc' = "loop" /\ ~shouldReset' /\ postMessage' = <<>>
       /\ (ctlPc = "loop" /\ ctlPc' = "waitHttp" /\ rxBody # <<>>
                          /\ jsonEndPos(rxBody[1]) = 0) =>
              curPoll'[1].body = <<>> /\ ~curPoll'[1].reset]_vars

\* A poll has been issued after a keep-alive that carried bytes after the sentinel.
C8_Witness ==
    /\ PollAfterBody
    /\ jsonEndPos(rxBody[1]) = 0 /\ rxBody[1].payloadLen > 0
    /\ curPoll[1].body = <<>>


\* A step in which SessionUIStreamStart is called and returns.
UIStreamStartStep == fgPc = "ready" /\ fgPc' = "returned" /\ fgArg' # ""

\* A step in which SessionUIStreamStop, called by the application, finds the
\* context not streaming and returns.
UIStreamStopRefusedStep ==
    fgPc = "uiStopCheck" /\ fgRet = "returned" /\ ~isUIStreaming /\ fgPc' = "returned"

\* SessionUIStreamStop on a context that is not streaming returns "UI is not
\* streaming", sends no stop signal and consumes no ack.
StopRefusal ==
    UIStreamStopRefusedStep =>
        fgErr' = ErrNotStreaming /\ shouldStopUI' = shouldStopUI /\ isDone' = isDone

\* C9 as stated: SessionUIStreamStart on a streaming context returns "UI is
\* already streaming", launches nothing and leaves the flag set;
\* SessionUIStreamStop on a context that is not streaming returns "UI is not
\* streaming" without a stop signal or the consumption of an ack.
C9_Original ==
    [][/\ (UIStreamStartStep /\ isUIStreaming) =>
              fgErr' = ErrAlreadyStreaming /\ uiCount' = uiCount /\ isUIStreaming'
       /\ StopRefusal]_vars

\* C9 amended: SessionUIStreamStart on a streaming context launches nothing
\* and leaves the flag set; it returns "UI is already streaming" when
\* SessionGetUIURL accepts the format and the error of SessionGetUIURL
\* ("Invalid format") when it does not. SessionUIStreamStop is as stated.
C9_Amended ==
    [][/\ (UIStreamStartStep /\ isUIStreaming) =>
              /\ uiCount' = uiCount /\ ui' = ui /\ isUIStreaming'
              /\ fgErr' = (IF fgArg' \in {"mp2t;h264", "jpeg;png"}
                           THEN ErrAlreadyStreaming ELSE ErrInvalidFormat)
       /\ StopRefusal]_vars

\* SessionUIStreamStart has been refused with "UI is already streaming" while
\* the pipeline launched before runs on.
C9_Witness ==
    /\ fgPc = "returned" /\ fgErr = ErrAlreadyStreaming
    /\ isUIStreaming /\ uiCount = 1 /\ UIRunning(1)

\* C10: once a UI pipeline has received the stop signal it starts no new
\* read and invokes no further frame callback.
C10_NoReadNoCallbackAfterStop ==
    [][\A t \in UITasks :
          ui[t].sawStop =>
              /\ ~FrameCallbackStep(t)
              /\ (ui'[t].child = "reading" => ui[t].child = "reading")]_vars

\* A stopped pipeline has passed the top of its loop with a frame at hand
\* that it did not deliver.
C10_Witness ==
    \E t \in UITasks :
        /\ ui[t].sawStop /\ ui[t].stopped /\ ui[t].pc = "select"
        /\ ui[t].readIndex >= 0 /\ Slot(t, ui[t].readIndex).frame > 0


\* ---------------------------------------------------- scheduling, liveness
\* The read of a closed response body fails.
UIChildReadClosed(t) == ~ReaderOpen(t) /\ UIChildReadFail(t)

\* What the Go scheduler and the transport guarantee to the caller inside
\* SessionUIStreamStop and to every UI task: a step that can be taken is
\* taken, a GET and a listener call return, and a read of a closed body
\* fails. A read of an open body may stay pending for ever.
UIFairness ==
    /\ WF_vars(UIStreamStopNotStreaming \/ UIStreamStopCheck
               \/ UIStreamStopSend \/ UIStreamStopWait)
    /\ \A t \in UITasks :
        /\ WF_vars(UIGetStopped(t) \/ UIGetFail(t) \/ UIGetOk(t))
        /\ WF_vars(UITop(t))
        /\ WF_vars(UIListenerOk(t) \/ UIListenerErr(t))
        /\ WF_vars(UISelectStop(t) \/ UISelectErr(t))
        /\ WF_vars(UIChildReadClosed(t))
        /\ WF_vars(UIChildSend(t))
        /\ WF_vars(UIExit(t))
        /\ WF_vars(UISendDone(t))

\* The UI pipelines alone, under that scheduling.
SpecUIFair == SpecUI /\ UIFairness

\* C11: once SessionUIStreamStop has sent the stop signal it eventually
\* returns (the pipeline exits, clears isUIStreaming and sends isDone),
\* however the read in flight ends.
C11_StopReturns == (fgPc = "uiStopWait") ~> (fgPc = "returned")


\* C12: the frames handed to the listener are the frames of the stream in
\* the order they were read: each one is the successor of the frame handed
\* over last, so none comes twice, late, or after a gap.
C12_FramesInOrder ==
    [][\A t \in UITasks :
          (FrameCallbackStep(t) /\ Slot(t, ui[t].readIndex).frame > 0) =>
              Slot(t, ui[t].readIndex).frame = ui[t].delivered + 1]_vars

\* The second frame of a stream is in the hands of the listener, after the first.
C12_Witness ==
    \E t \in UITasks : ui[t].pc = "listener" /\ ui[t].delivered = 2


\* A step of the engine out of the decoding of the body it has read.
DecodeStep == ctlPc = "decode" /\ ctlPc' # "decode"

\* C13: a body without the "\n\n" sentinel is fatal: the engine calls no
\* listener operation for it and leaves with an error; having left, it sends
\* its ack on isDone and issues no further poll.
C13_MissingSentinelFatal ==
    [][/\ (DecodeStep /\ jsonEndPos(body[1]) < 0) =>
              ctlPc' = "sendDone" /\ ctlErr' = ErrControl /\ npolls' = npolls
       /\ ctlPc = "sendDone" =>
              /\ npolls' = npolls
              /\ ctlPc' = "sendDone" \/ (ctlPc' = "exited" /\ isDone' = <<"ctl">>)
       /\ ctlPc = "exited" => ctlPc' = "exited" /\ npolls' = npolls]_vars

\* The engine has left on a body without sentinel received in answer to its
\* second poll.
C13_Witness ==
    /\ ctlPc = "sendDone" /\ ctlErr = ErrControl /\ npolls = 2
    /\ rxBody = <<NoSentinelBody>>


\* C14: a payload size that is unparseable or differs from the bytes after
\* the sentinel makes the engine skip the message: no listener call, no
\* exit, no ack on isDone; its next step is the next poll.
C14_SizeMismatchSkipsMessage ==
    [][/\ (DecodeStep /\ HeaderParses(body[1]) /\ ~PayloadSizeOk(body[1])) =>
              ctlPc' = "loop" /\ ctlAcks' = ctlAcks /\ isDone' = isDone
       /\ (ctlPc = "loop" /\ ctlPc' # "loop" /\ sidOk /\ rxBody # <<>>
                          /\ HeaderParses(rxBody[1]) /\ ~PayloadSizeOk(rxBody[1])) =>
              ctlPc' = "waitHttp" /\ npolls' = npolls + 1]_vars

\* The engine polls again after a message whose header announces two bytes
\* and which carries one.
C14_Witness ==
    /\ PollAfterBody /\ ctlAcks = 0
    /\ HeaderParses(rxBody[1])
    /\ rxBody[1].req.PayloadSize = "2" /\ rxBody[1].payloadLen = 1


\* The body passes the checks of the engine and reaches processRPCRequest.
Dispatched(b) == HeaderParses(b) /\ PayloadSizeOk(b)

\* C15: when a numeric field of a request fails to parse, the listener is not
\* called, the response carries the request's id, result ERROR and a message
\* naming the text that failed (the first one in parsing order), and the
\* engine goes on to its next poll without leaving.
C15_ParseFailureAnswered ==
    [][\A i \in 1..4 :
          (/\ DecodeStep /\ Dispatched(body[1])
           /\ body[1].req.Service \in {"seek", "setRect", "removeBufferRange"}
           /\ i <= Len(NumericFields(body[1].req))
           /\ ~FieldParses(NumericFields(body[1].req)[i])
           /\ \A j \in 1..(i - 1) : FieldParses(NumericFields(body[1].req)[j]))
          => /\ ctlPc' = "loop" /\ isDone' = isDone
             /\ Len(postMessage') = 1
             /\ postMessage'[1].requestId = body[1].req.RequestId
             /\ postMessage'[1].result = "ERROR"
             /\ postMessage'[1].message =
                   <<IF body[1].req.Service = "setRect"
                     THEN "Failed to parse integer: " ELSE "Failed to parse float: ",
                     NumericFields(body[1].req)[i].text>>]_vars

\* The poll after a setRect whose width and height are both unparseable
\* carries the ERROR response that names the width.
C15_Witness ==
    /\ PollAfterBody
    /\ rxBody[1].req.Service = "setRect"
    /\ curPoll[1].body # <<>>
    /\ curPoll[1].body[1].result = "ERROR"
    /\ curPoll[1].body[1].message = <<"Failed to parse integer: ", "x">>


\* The listener call of processRPCRequest returns.
ListenerReturnStep == ctlPc = "listener" /\ ctlPc' # "listener"

\* C16: for every service, a response built after the listener returned an
\* error is exactly: the request's id, result ERROR, the error's text as the
\* message, no service-specific field, no payloadSize and no payload. (Every
\* response that is not OK after a listener call has this form.)
C16_ListenerErrorVerbatim ==
    [][ListenerReturnStep /\ postMessage' # <<>> /\ postMessage'[1].result # "OK"
       => postMessage' = <<[requestId |-> body[1].req.RequestId, result |-> "ERROR",
                            message |-> <<ErrListener>>, fields |-> NoResultFields,
                            payloadSize |-> <<>>, payload |-> <<>>]>>]_vars

\* The poll after a loadResource request carries the listener's error.
C16_Witness ==
    /\ PollAfterBody
    /\ rxBody[1].req.Service = "loadResource"
    /\ curPoll[1].body # <<>>
    /\ curPoll[1].body[1].result = "ERROR"
    /\ curPoll[1].body[1].message = <<ErrListener>>


\* C17: a request whose service name the dispatcher does not know is answered
\* with result ERROR and the message "Unknown service: <name>"; no listener
\* operation is called and the engine goes on to its next poll.
C17_UnknownService ==
    [][DecodeStep /\ Dispatched(body[1]) /\ body[1].req.Service = "nosuch"
       => /\ ctlPc' = "loop" /\ isDone' = isDone /\ ctlAcks' = ctlAcks
          /\ Len(postMessage') = 1
          /\ postMessage'[1].requestId = body[1].req.RequestId
          /\ postMessage'[1].result = "ERROR"
          /\ postMessage'[1].message = <<"Unknown service: ", "nosuch">>]_vars

\* The poll after a request for the service "nosuch" carries the ERROR
\* response naming it.
C17_Witness ==
    /\ PollAfterBody
    /\ rxBody[1].req.Service = "nosuch"
    /\ curPoll[1].body # <<>>
    /\ curPoll[1].body[1].result = "ERROR"
    /\ curPoll[1].body[1].message = <<"Unknown service: ", "nosuch">>


\* Every numeric field the dispatcher parses for the request parses.
ArgumentsParse(req) ==
    \A i \in 1..Len(NumericFields(req)) : FieldParses(NumericFields(req)[i])

\* C18: with a nil listener, a request for a known service whose arguments
\* parse is answered with result OK, an empty message, no payload, and result
\* fields holding the zero values (paused "0"; start and end null); the
\* response is never ERROR.
C18_NilListenerOK ==
    [][DecodeStep /\ ~appf /\ Dispatched(body[1])
       /\ body[1].req.Service \in {"play", "seek", "getPaused", "getSeekable", "setRect",
                                   "removeBufferRange", "loadResource"}
       /\ ArgumentsParse(body[1].req)
       => /\ ctlPc' = "loop"
          /\ Len(postMessage') = 1
          /\ postMessage'[1].requestId = body[1].req.RequestId
          /\ postMessage'[1].result = "OK"
          /\ postMessage'[1].message = <<>>
          /\ postMessage'[1].payloadSize = <<>> /\ postMessage'[1].payload = <<>>
          /\ \A n \in DOMAIN postMessage'[1].fields :
                postMessage'[1].fields[n] = (IF n = "paused" THEN "0" ELSE "null")
          /\ (body[1].req.Service = "getPaused"
                 => DOMAIN postMessage'[1].fields = {"paused"})
          /\ (body[1].req.Service = "getSeekable"
                 => DOMAIN postMessage'[1].fields = {"start", "end"})]_vars

\* A session started with a nil listener polls with the OK response to a
\* getPaused request, the field paused holding "0".
C18_Witness ==
    /\ ~appf
    /\ PollAfterBody
    /\ rxBody[1].req.Service = "getPaused"
    /\ curPoll[1].body # <<>>
    /\ curPoll[1].body[1].result = "OK"
    /\ curPoll[1].body[1].fields = [n \in {"paused"} |-> "0"]


\* ------------------------------------------------------------- framing
\* A message on the wire is a sequence of elements: the text of a JSON object
\* (json.Marshal escapes newlines, so it holds no sentinel), single payload
\* bytes, and the two newline bytes that end a header.
Sentinel == [kind |-> "sentinel"]
JsonText(obj) == [kind |-> "json", obj |-> obj]
PayloadBytes(p) == [i \in 1..Len(p) |-> [kind |-> "byte", v |-> p[i]]]

\* The JSON object marshalRPCResponse marshals.
ResponseHeader(r) ==
    [requestId |-> r.requestId, result |-> r.result, message |-> r.message,
     fields |-> r.fields, payloadSize |-> r.payloadSize]

\* The bytes marshalRPCResponse returns: `append(r, resultPayload...)`.
ResponseBytes(r) == <<JsonText(ResponseHeader(r))>> \o PayloadBytes(r.payload)

\* bytes.Index(body, "\n\n"), 1-based; 0 when the sentinel is absent.
SentinelIndex(bytes) ==
    IF \E i \in 1..Len(bytes) : bytes[i].kind = "sentinel"
    THEN CHOOSE i \in 1..Len(bytes) :
            bytes[i].kind = "sentinel" /\ \A j \in 1..(i - 1) : bytes[j].kind # "sentinel"
    ELSE 0

\* The decoding rules of controlChannelRun applied to a message: the header
\* is what precedes the first sentinel, the payload what follows it, and the
\* header's payloadSize must equal the payload length. The empty sequence
\* means the message is rejected.
DecodeFrame(bytes) ==
    LET i == SentinelIndex(bytes)
        payload == SubSeq(bytes, i + 1, Len(bytes))
    IN IF i # 2 \/ bytes[1].kind # "json" THEN <<>>
       ELSE IF bytes[1].obj.payloadSize # <<>> \/ Len(payload) > 0
            THEN IF bytes[1].obj.payloadSize = <<Len(payload)>>
                 THEN <<[header |-> bytes[1].obj, payload |-> payload]>>
                 ELSE <<>>
            ELSE <<[header |-> bytes[1].obj, payload |-> payload]>>

\* C19: framing round trip for the responses the engine sends: the bytes of
\* every marshalled response decode, under the channel's decoding rules, to
\* the response's header and payload; a response with a payload has the
\* sentinel between header and payload.
C19_FramingRoundTrip ==
    postMessage # <<>>
    => /\ DecodeFrame(ResponseBytes(postMessage[1])) =
             <<[header |-> ResponseHeader(postMessage[1]),
                payload |-> PayloadBytes(postMessage[1].payload)]>>
       /\ (postMessage[1].payload # <<>>
              => ResponseBytes(postMessage[1])[2].kind = "sentinel")


\* ------------------------------------------------------------- registry
\* SessionGetSessionContext: the context registered for the session id, or
\* nil (the empty sequence).
SessionGetSessionContext(sessionId) ==
    IF sessionId \in sessionIdToCtx THEN <<sessionId>> ELSE <<>>

\* C20: the session's context is in the registry from the successful return
\* of SessionStart until SessionStop, and once SessionStop has returned
\* SessionGetSessionContext no longer returns it.
C20_RegistryLifecycle ==
    /\ (fgPc \notin {"init", "stopReturned"} => SessionGetSessionContext("sid") = <<"sid">>)
    /\ (fgPc = "stopReturned" => SessionGetSessionContext("sid") = <<>>)


\* ------------------------------------------- the application's request API
ErrInvalidEvent == "Invalid event type"
ErrStatus == "HTTP request failed with status"

\* The session context exists: SessionStart has returned it.
HasContext == fgPc # "init"

\* strings.ToLower on the event types the callers pass.
ToLower(s) ==
    CASE s = "KeyDown" -> "keydown"
      [] OTHER -> s

EventTypes == {"key", "KeyDown", "click", "tap"}
KeyCodes == {13}
Chars == {0, 97}

\* The query parameters SessionSendEvent appends to the event URL after
\* session_id and type, as <<name, value>> pairs in URL order. replaceVars
\* puts the decimal text of code in place of both ${KEYCODE} and ${CHAR}.
EventParams(eventType, code, char, x, y) ==
    (IF eventType \in {"key", "keydown", "keyup"} THEN << <<"code", code>> >>
     ELSE << <<"x", x>>, <<"y", y>> >>)
    \o (IF char > 0 THEN << <<"char", code>> >> ELSE <<>>)

\* apiReq / httpReq: the request for a URL and a body (empty for nil, else a
\* sequence holding the bytes): GET without a body, POST with one.
ApiRequest(path, type, params, reqBody) ==
    [method |-> IF reqBody = <<>> THEN "GET" ELSE "POST", path |-> path, type |-> type,
     params |-> params, body |-> IF reqBody = <<>> THEN <<>> ELSE reqBody[1]]

\* httpReq is entered: the request is built and the child task that runs
\* client.Do is spawned; the caller goes to its select.
StartRequest(t, op, args, r) ==
    api' = [api EXCEPT ![t] = [ApiIdle EXCEPT !.pc = "select", !.op = op, !.args = args,
                                              !.req = <<r>>, !.child = "running"]]

\* SessionSendEvent is called: the event type is lowered and checked, the URL
\* is built and apiReq is entered.
SendEvent(t, maxCalls) ==
    /\ HasContext /\ api[t].pc = "idle" /\ apiCalls < maxCalls
    /\ apiCalls' = apiCalls + 1
    /\ \E eventType \in EventTypes, code \in KeyCodes, char \in Chars :
         LET ty == ToLower(eventType)
             args == <<[eventType |-> eventType, code |-> code, char |-> char,
                        x |-> 5, y |-> 6]>>
         IN IF ty \in {"key", "keydown", "keyup", "click"}
            THEN StartRequest(t, "event", args,
                              ApiRequest("/osb/session/event", ty,
                                         EventParams(ty, code, char, 5, 6), <<>>))
            ELSE api' = [api EXCEPT ![t] = [ApiIdle EXCEPT !.pc = "returned", !.op = "event",
                                                           !.args = args,
                                                           !.ret = ErrInvalidEvent]]
    /\ UNCHANGED <<coreVars, resBody, startVars, joinVars, imgVars, pktVars, globalRequestId>>

\* The payloads callers hand to SessionSendNotification: nil, empty, one byte.
NotificationPayloads == {<<>>, << <<>> >>, << <<7>> >>}

\* SessionSendNotification is called by the application with a payload
\* (empty for nil, else a sequence holding the bytes, as wire elements).
SendNotification(t, maxCalls) ==
    /\ HasContext /\ api[t].pc = "idle" /\ apiCalls < maxCalls
    /\ apiCalls' = apiCalls + 1
    /\ \E payload \in NotificationPayloads :
         StartRequest(t, "notify", <<>>,
                      ApiRequest("/osb/session/control/response", "", <<>>,
                                 IF payload = <<>> THEN <<>> ELSE <<PayloadBytes(payload[1])>>))
    /\ UNCHANGED <<coreVars, resBody, startVars, joinVars, imgVars, pktVars, globalRequestId>>

\* marshalRPCNotification: the JSON header, and when the payload is not nil
\* the sentinel and the payload.
marshalRPCNotification(requestId, payload) ==
    <<JsonText([service |-> "eventNotification", requestId |-> requestId,
                payloadSize |-> IF payload = <<>> THEN <<>> ELSE <<Len(payload[1])>>])>>
    \o (IF payload = <<>> THEN <<>> ELSE <<Sentinel>> \o PayloadBytes(payload[1]))

\* SessionSendNotificationVideoStateChange is called: the notification is
\* created and getRequestId starts its `globalRequestId++` by loading the
\* counter.
SendVideoStateChange(t, maxCalls) ==
    /\ HasContext /\ api[t].pc = "idle" /\ apiCalls < maxCalls
    /\ apiCalls' = apiCalls + 1
    /\ api' = [api EXCEPT ![t] = [ApiIdle EXCEPT !.pc = "idStore", !.op = "videoStateChange",
                                                 !.tmp = globalRequestId]]
    /\ UNCHANGED <<coreVars, resBody, startVars, joinVars, imgVars, pktVars, globalRequestId>>

\* getRequestId: `globalRequestId++` stores the incremented value.
RequestIdStore(t) ==
    /\ api[t].pc = "idStore"
    /\ globalRequestId' = api[t].tmp + 1
    /\ api' = [api EXCEPT ![t].pc = "idRead"]
    /\ UNCHANGED <<coreVars, resBody, startVars, joinVars, imgVars, pktVars, apiCalls>>

\* getRequestId: strconv.Itoa(globalRequestId) reads the counter again; the
\* notification is marshalled with it and SessionSendNotification posts it.
RequestIdRead(t) ==
    /\ api[t].pc = "idRead"
    /\ api' = [api EXCEPT ![t].pc = "select", ![t].rid = globalRequestId, ![t].tmp = 0,
                          ![t].child = "running",
                          ![t].req = <<ApiRequest("/osb/session/control/response", "", <<>>,
                                                  <<marshalRPCNotification(globalRequestId,
                                                                           << <<1, 2>> >>)>>)>>]
    /\ UNCHANGED <<coreVars, resBody, startVars, joinVars, imgVars, pktVars, apiCalls, globalRequestId>>

\* The child task of httpReq: client.Do returns a transport error or a response
\* with a status, and the result goes to errChan.
HttpDone(t) ==
    /\ api[t].child = "running"
    /\ \E r \in {[err |-> ErrHttp, status |-> 0, respBody |-> "none"],
                 [err |-> NoErr, status |-> 200, respBody |-> "open"],
                 [err |-> NoErr, status |-> 500, respBody |-> "open"]} :
         api' = [api EXCEPT ![t].child = "done", ![t].errChan = <<r.err>>,
                            ![t].status = r.status, ![t].respBody = r.respBody]
    /\ UNCHANGED <<coreVars, resBody, startVars, joinVars, imgVars, pktVars, apiCalls, globalRequestId>>

\* A stop case that reports success.
StopCaseIgnored == NoErr
\* What the stop case of httpReq's select returns.
StopCaseResult == ErrInterrupted

\* A stop case that takes the signal away from the other receivers.
HttpSelectStopConsumes(t) ==
    /\ api[t].pc = "select"
    /\ shouldStopSession = "closed"
    /\ shouldStopSession' = "open"
    /\ api' = [api EXCEPT ![t].pc = "returned", ![t].ret = ErrInterrupted, ![t].req = <<>>,
                          ![t].args = <<>>,
                          ![t].child = IF @ = "running" THEN "cancelled" ELSE @]
    /\ UNCHANGED <<fgVars, isUIStreaming, shouldStopUI, isDone, sessionIdToCtx, sidOk, appf,
                   ctlVars, npolls, histVars, uiVars, imgVars, pktVars, apiCalls,
                   globalRequestId, resBody, startVars, joinVars>>

\* httpReq's select takes <-shouldStop: the request is cancelled and the call
\* returns nil and ErrInterrupted.
HttpSelectStop(t) ==
    /\ api[t].pc = "select"
    /\ shouldStopSession = "closed"
    /\ api' = [api EXCEPT ![t].pc = "returned", ![t].ret = StopCaseResult, ![t].req = <<>>,
                          ![t].args = <<>>,
                          ![t].child = IF @ = "running" THEN "cancelled" ELSE @]
    /\ UNCHANGED <<coreVars, resBody, startVars, joinVars, imgVars, pktVars, apiCalls, globalRequestId>>

\* An httpReq that leaves the body of a response whose status is not 200 open.
BodyAfterBadStatusLeftOpen == "open"
\* The body of a response whose status is not 200, after httpReq returned.
BodyAfterBadStatus == "closed"

\* httpReq's select takes errChan: a transport error is returned; a status
\* other than 200 closes the body and returns an error; otherwise apiReq gets
\* the body, closes it on return and returns nil.
HttpSelectErr(t) ==
    /\ api[t].pc = "select"
    /\ api[t].errChan # <<>>
    /\ api' = [api EXCEPT ![t].pc = "returned", ![t].errChan = <<>>, ![t].req = <<>>,
                          ![t].args = <<>>,
                          ![t].ret = IF api[t].errChan[1] # NoErr THEN api[t].errChan[1]
                                     ELSE IF api[t].status # 200 THEN ErrStatus ELSE NoErr,
                          ![t].respBody = IF api[t].errChan[1] # NoErr THEN @
                                          ELSE IF api[t].status # 200 THEN BodyAfterBadStatus
                                          ELSE "closed"]
    /\ UNCHANGED <<coreVars, resBody, startVars, joinVars, imgVars, pktVars, apiCalls, globalRequestId>>

\* The caller goes on after a call returned.
ApiContinue(t) ==
    /\ api[t].pc = "returned"
    /\ api' = [api EXCEPT ![t] = ApiIdle]
    /\ UNCHANGED <<coreVars, resBody, startVars, joinVars, imgVars, pktVars, apiCalls, globalRequestId>>

\* The calls of the request API by the application's tasks; the session is
\* started and SessionStop closes shouldStopSession while calls are under way.
\* The engine waits in its first poll.
ApiCalls(t, maxCalls) ==
    \/ SendEvent(t, maxCalls)
    \/ SendNotification(t, maxCalls)
    \/ SendVideoStateChange(t, maxCalls)
    \/ RequestIdStore(t)
    \/ RequestIdRead(t)
    \/ HttpDone(t)
    \/ HttpSelectStop(t)
    \/ HttpSelectErr(t)
    \/ ApiContinue(t)

NextApi ==
    \/ SessionStartOk({TRUE}, {TRUE})
    \/ SessionStopCall
    \/ SessionStopClose
    \/ \E t \in ApiTasks : ApiCalls(t, MaxApiCalls)

SpecApi == Init /\ [][NextApi]_vars


\* ------------------------------------------------ claims on the request API
\* The call of task t returns from httpReq.
HttpReturnStep(t) == api[t].pc = "select" /\ api'[t].pc = "returned"

\* C21: when httpReq returns while the shutdown signal has fired and the
\* request has not completed, the request has been cancelled and the call
\* returns ErrInterrupted without a response body; when it returns with no
\* signal fired and a status other than 200, the body is closed and an error
\* is returned.
C21_CancellableRequest ==
    [][\A t \in ApiTasks :
          /\ (HttpReturnStep(t) /\ shouldStopSession = "closed" /\ api[t].child = "running"
                => /\ api'[t].ret = ErrInterrupted
                   /\ api'[t].child = "cancelled"
                   /\ api'[t].respBody = "none")
          /\ (HttpReturnStep(t) /\ shouldStopSession = "open" /\ api[t].status \notin {0, 200}
                => /\ api'[t].ret = ErrStatus
                   /\ api'[t].respBody = "closed")]_vars

\* The second call of the run was interrupted while its request was in flight.
C21_Witness ==
    \E t \in ApiTasks :
       /\ api[t].pc = "returned" /\ api[t].ret = ErrInterrupted /\ api[t].child = "cancelled"
       /\ apiCalls = 2


\* C22: the requestIds getRequestId hands to notifications are pairwise
\* distinct: two notifications under way at the same time never carry the
\* same requestId.
C22_RequestIdsDistinct ==
    \A t, u \in ApiTasks :
       t # u /\ api[t].rid > 0 /\ api[u].rid > 0 => api[t].rid # api[u].rid


\* The bytes are a framed notification: a JSON header with
\* service=eventNotification, the sentinel, then payload bytes only.
FramedNotification(bytes) ==
    /\ Len(bytes) >= 2
    /\ bytes[1].kind = "json"
    /\ bytes[1].obj.service = "eventNotification"
    /\ bytes[2].kind = "sentinel"
    /\ \A i \in 3..Len(bytes) : bytes[i].kind = "byte"

\* C23: every request SessionSendNotification issues, whatever payload it was
\* given, is a POST to /osb/session/control/response whose body is a framed
\* notification.
C23_NotificationFramed ==
    \A t \in ApiTasks :
       api[t].op \in {"notify", "videoStateChange"} /\ api[t].req # <<>>
       => /\ api[t].req[1].method = "POST"
          /\ api[t].req[1].path = "/osb/session/control/response"
          /\ FramedNotification(api[t].req[1].body)


\* The <<name, value>> pairs in the query of a request.
ParamSet(r) == {r.params[i] : i \in 1..Len(r.params)}

\* C26: a SessionSendEvent call whose type is not key, keydown, keyup or
\* click (in any case) returns "Invalid event type" and issues no request;
\* for the key types the URL carries code=<code> and, when char > 0,
\* char=<char>; for click it carries x=<x> and y=<y>.
C26_EventURL ==
    \A t \in ApiTasks :
       api[t].op = "event" /\ api[t].args # <<>>
       => LET a == api[t].args[1]
              ty == ToLower(a.eventType)
          IN IF ty \notin {"key", "keydown", "keyup", "click"}
             THEN api[t].ret = ErrInvalidEvent /\ api[t].req = <<>> /\ api[t].child = "none"
             ELSE /\ api[t].req # <<>>
                  /\ api[t].req[1].type = ty
                  /\ (ty # "click" => <<"code", a.code>> \in ParamSet(api[t].req[1]))
                  /\ (ty # "click" /\ a.char > 0
                         => <<"char", a.char>> \in ParamSet(api[t].req[1]))
                  /\ (ty = "click" => {<<"x", a.x>>, <<"y", a.y>>} \subseteq ParamSet(api[t].req[1]))


\* ------------------------------------------------------ claims on the UI URL
\* C25: SessionGetUIURL accepts every format of the allowed video and image
\* tables and rejects any other with "Invalid format"; the URL it builds has
\* fmt equal to the video format as given, or to the main token of an image
\* format, and has alpha=<second token> exactly when an image format has one.
C25_UIURL ==
    /\ (fgPc = "returned" /\ fgArg # ""
          => (fgErr = ErrInvalidFormat
                <=> fgArg \notin {"mp2t;h264", "jpeg;png", "jpeg"}))
    /\ \A t \in UITasks :
          ui[t].uri # <<>>
          => /\ (ui[t].format = "mp2t;h264"
                   => ui[t].uri[1].fmt = "mp2t;h264" /\ ui[t].uri[1].alpha = <<>>)
             /\ (ui[t].format = "jpeg;png"
                   => ui[t].uri[1].fmt = "jpeg" /\ ui[t].uri[1].alpha = <<"png">>)
             /\ (ui[t].format = "jpeg"
                   => ui[t].uri[1].fmt = "jpeg" /\ ui[t].uri[1].alpha = <<>>)


\* ------------------------------------------------------------- readImage
\* What br holds is a sequence of bytes (positive numbers); a 0 marks a point
\* where the underlying reader reports the end of its data (once), and past
\* the last element it reports the end for good.
EndMark == 0

\* n bytes of value zero (a fresh buffer from make).
Zeros(n) == [i \in 1..n |-> 0]

\* The number of bytes r holds before its first end mark.
Available(r) ==
    IF \E i \in 1..Len(r) : r[i] = EndMark
    THEN (CHOOSE i \in 1..Len(r) : r[i] = EndMark /\ \A j \in 1..(i - 1) : r[j] # EndMark) - 1
    ELSE Len(r)

\* io.ReadFull(br, buf) for a fresh buffer of n bytes: the buffer afterwards,
\* what the reader still holds, and the error: nil when the buffer was
\* filled, EOF when nothing was read, ErrUnexpectedEOF when the data ended
\* after some bytes.
ReadFull(r, n) ==
    LET a == Available(r)
    IN IF a >= n
       THEN [buf |-> SubSeq(r, 1, n), rest |-> SubSeq(r, n + 1, Len(r)), err |-> "nil"]
       ELSE [buf |-> SubSeq(r, 1, a) \o Zeros(n - a),
             rest |-> SubSeq(r, a + 2, Len(r)),
             err |-> IF a = 0 THEN "EOF" ELSE "ErrUnexpectedEOF"]

\* concatBytes: slice followed by data (reallocation does not change contents).
concatBytes(slice, bytes) == slice \o bytes

\* The bytes of a record of size n as the server wrote them.
RecordBytes(n) == [i \in 1..n |-> i]

\* What the reader delivers of those bytes: all of them, or the first cut of
\* them followed by an end of data, after which the rest arrives (resumed) or
\* nothing does.
Delivery(bytes, cut, resumed) ==
    IF cut = Len(bytes) THEN bytes
    ELSE SubSeq(bytes, 1, cut)
         \o (IF resumed THEN <<EndMark>> \o SubSeq(bytes, cut + 1, Len(bytes)) ELSE <<>>)

\* readImage is called on an empty UIImage; the stream holds the header of a
\* record and what the reader will deliver of its bytes.
ReadImageCall(maxSize) ==
    /\ imgPc = "idle"
    /\ \E size \in 1..maxSize, alphaSize \in 0..maxSize, cut \in 0..maxSize,
          resumed \in BOOLEAN :
         /\ alphaSize <= size /\ cut <= size
         /\ imgRecord' = <<[Size |-> size, AlphaSize |-> alphaSize,
                            bytes |-> SubSeq(RecordBytes(size), 1,
                                             IF resumed THEN size ELSE cut)]>>
         /\ br' = Delivery(RecordBytes(size), cut, resumed)
    /\ imgData' = NilImage
    /\ imgPc' = "header"
    /\ UNCHANGED <<coreVars, resBody, startVars, joinVars, apiVars, pktVars>>

\* readImage reads and parses the JSON header.
ReadImageHeader ==
    /\ imgPc = "header"
    /\ imgData' = [imgData EXCEPT !.Header = <<[Size |-> imgRecord[1].Size,
                                                AlphaSize |-> imgRecord[1].AlphaSize]>>]
    /\ imgPc' = "color"
    /\ UNCHANGED <<coreVars, resBody, startVars, joinVars, apiVars, pktVars, br, imgRecord>>

\* readImage reads the rest of the color plane with io.ReadFull; after
\* ErrUnexpectedEOF it appends the whole buffer and goes round the loop.
ReadImageColor ==
    /\ imgPc = "color"
    /\ LET h == imgData.Header[1]
           r == ReadFull(br, h.Size - h.AlphaSize - Len(imgData.Img))
       IN /\ br' = r.rest
          /\ IF r.err = "nil"
             THEN /\ imgData' = [imgData EXCEPT !.Img = concatBytes(@, r.buf)]
                  /\ imgPc' = IF h.AlphaSize > 0 THEN "alpha" ELSE "returned"
             ELSE IF r.err = "ErrUnexpectedEOF"
             THEN /\ imgData' = [imgData EXCEPT !.Img = concatBytes(@, r.buf)]
                  /\ imgPc' = "color"
             ELSE /\ imgData' = imgData
                  /\ imgPc' = "failed"
    /\ UNCHANGED <<coreVars, resBody, startVars, joinVars, apiVars, pktVars, imgRecord>>

\* readImage reads the rest of the alpha plane the same way.
ReadImageAlpha ==
    /\ imgPc = "alpha"
    /\ LET h == imgData.Header[1]
           r == ReadFull(br, h.AlphaSize - Len(imgData.AlphaImg))
       IN /\ br' = r.rest
          /\ IF r.err = "nil"
             THEN /\ imgData' = [imgData EXCEPT !.AlphaImg = concatBytes(@, r.buf)]
                  /\ imgPc' = "returned"
             ELSE IF r.err = "ErrUnexpectedEOF"
             THEN /\ imgData' = [imgData EXCEPT !.AlphaImg = concatBytes(@, r.buf)]
                  /\ imgPc' = "color"
             ELSE /\ imgData' = imgData
                  /\ imgPc' = "failed"
    /\ UNCHANGED <<coreVars, resBody, startVars, joinVars, apiVars, pktVars, imgRecord>>

\* readImage has returned (nil: the image goes to OnUIImageFrame; an error:
\* the pipeline ends); the next record is awaited.
ReadImageDone ==
    /\ imgPc \in {"returned", "failed"}
    /\ imgPc' = "idle"
    /\ imgData' = NilImage /\ br' = <<>> /\ imgRecord' = <<>>
    /\ UNCHANGED <<coreVars, resBody, startVars, joinVars, apiVars, pktVars>>

NextImage ==
    \/ ReadImageCall(MaxImageSize)
    \/ ReadImageHeader
    \/ ReadImageColor
    \/ ReadImageAlpha
    \/ ReadImageDone

SpecImage == Init /\ [][NextImage]_vars

\* C24: the image readImage returns for the listener holds, byte for byte, the
\* size - alphaSize bytes that followed the header in the stream as Img and
\* the next alphaSize bytes as AlphaImg, however the reads were cut.
C24_ImageAssembly ==
    imgPc = "returned"
    => LET h == imgRecord[1]
       IN /\ Len(h.bytes) >= h.Size
          /\ imgData.Img = SubSeq(h.bytes, 1, h.Size - h.AlphaSize)
          /\ imgData.AlphaImg = SubSeq(h.bytes, h.Size - h.AlphaSize + 1, h.Size)


\* C27: whenever the response to getBuffered contains start and end arrays,
\* the arrays have the same length and start[i] <= end[i] for every i,
\* whatever the listener filled in.
C27_BufferedRangeShape ==
    [][ListenerReturnStep /\ body[1].req.Service = "getBuffered"
       /\ postMessage' # <<>> /\ "start" \in DOMAIN postMessage'[1].fields
       => LET f == postMessage'[1].fields
          IN /\ Len(f["start"]) = Len(f["end"])
             /\ \A i \in 1..Len(f["start"]) : f["start"][i] <= f["end"][i]]_vars


\* --------------------------------------------------------- pktToBitstream
\* h264parser.StartCodeBytes, and the parameter sets of the codec data.
StartCodeBytes == <<0, 0, 0, 1>>
SPS == <<103, 66>>
PPS == <<104>>

\* The NAL units a packet may hold.
NalUnits == {<<65>>, <<101, 7>>}

\* All sequences of 1..n NAL units.
RECURSIVE NaluLists(_)
NaluLists(n) ==
    IF n = 0 THEN {<<>>}
    ELSE LET shorter == NaluLists(n - 1)
         IN shorter \cup {Append(l, u) : l \in {m \in shorter : Len(m) = n - 1}, u \in NalUnits}

\* The data of a packet as the demuxer delivers it: every NAL unit preceded by
\* its length as a 4-byte big-endian number.
RECURSIVE PacketData(_)
PacketData(nalus) ==
    IF nalus = <<>> THEN <<>>
    ELSE <<0, 0, 0, Len(Head(nalus))>> \o Head(nalus) \o PacketData(Tail(nalus))

\* h264parser.SplitNALUs on length-prefixed data: the NAL units in order.
RECURSIVE SplitNALUs(_)
SplitNALUs(bytes) ==
    IF Len(bytes) < 4 THEN <<>>
    ELSE LET n == bytes[4]
         IN <<SubSeq(bytes, 5, 4 + n)>> \o SplitNALUs(SubSeq(bytes, 5 + n, Len(bytes)))

\* The loop of pktToBitstream: each NAL unit preceded by the start code.
RECURSIVE AppendNalus(_, _)
AppendNalus(bytes, pktnalus) ==
    IF pktnalus = <<>> THEN bytes
    ELSE AppendNalus(bytes \o StartCodeBytes \o Head(pktnalus), Tail(pktnalus))

\* A key-frame prefix that lacks the PPS.
KeyFramePrefixWithoutPPS == StartCodeBytes \o SPS
\* What pktToBitstream puts before the NAL units of a key frame.
KeyFramePrefix == StartCodeBytes \o SPS \o StartCodeBytes \o PPS

\* pktToBitstream(videoCodecData, pkt).
pktToBitstream(codec, p) ==
    IF codec = "H264"
    THEN AppendNalus(IF p.IsKeyFrame THEN KeyFramePrefix ELSE <<>>, SplitNALUs(p.Data))
    ELSE p.Data

\* demuxer.ReadPacket delivers a packet of the stream (nalus records what the
\* server put in it).
PacketRead(maxNalus) ==
    /\ pktPc = "idle"
    /\ \E codec \in {"H264", "VP8"}, key \in BOOLEAN, nalus \in NaluLists(maxNalus) \ {<<>>} :
         /\ videoCodecData' = codec
         /\ pkt' = <<[IsKeyFrame |-> key, Data |-> PacketData(nalus), nalus |-> nalus]>>
    /\ pktPc' = "read"
    /\ UNCHANGED <<coreVars, resBody, startVars, joinVars, apiVars, imgVars, data>>

\* uiVideoStream converts the packet for the listener.
PacketConvert ==
    /\ pktPc = "read"
    /\ data' = pktToBitstream(videoCodecData, pkt[1])
    /\ pktPc' = "converted"
    /\ UNCHANGED <<coreVars, resBody, startVars, joinVars, apiVars, imgVars, videoCodecData, pkt>>

\* OnUIVideoFrame has been called with the data; the next packet is awaited.
PacketDelivered ==
    /\ pktPc = "converted"
    /\ pktPc' = "idle"
    /\ videoCodecData' = "" /\ pkt' = <<>> /\ data' = <<>>
    /\ UNCHANGED <<coreVars, resBody, startVars, joinVars, apiVars, imgVars>>

NextBitstream ==
    \/ PacketRead(MaxNalus)
    \/ PacketConvert
    \/ PacketDelivered

SpecBitstream == Init /\ [][NextBitstream]_vars

\* The NAL units one after the other, each after the 4-byte start code.
RECURSIVE AnnexB(_)
AnnexB(nalus) ==
    IF nalus = <<>> THEN <<>>
    ELSE <<0, 0, 0, 1>> \o Head(nalus) \o AnnexB(Tail(nalus))

C29_ResetPollEmpty ==
    [][npolls' = npolls + 1 /\ curPoll'[1].reset => curPoll'[1].body = <<>>]_vars

\* A second poll with reset=1 has been sent, after a header that did not parse.
C29_Witness ==
    /\ npolls = 2 /\ ctlPc = "waitHttp"
    /\ curPoll[1].reset /\ curPoll[1].body = <<>>
    /\ rxBody # <<>> /\ ~UnmarshalOk(rxBody[1])


\* The loop of task t starts a round while not stopped: a read is launched.
UILaunchStep(t) ==
    /\ ui[t].pc = "top" /\ ~ui[t].stopped
    /\ ui'[t].pc \in {"select", "listener"}

\* C30: double buffering. While the pipeline is not stopped, a read is launched
\* only when no read is in flight; the slot handed to the listener is the
\* other slot than the one being filled (R = 1 - W); and the reader does not
\* write a slot while the listener call that observes it is running.
C30_DoubleBuffer ==
    [][\A t \in UITasks :
          ~ui[t].stopped =>
             /\ UILaunchStep(t) => ui[t].child = "none" /\ ui[t].errChan = <<>>
             /\ ui'[t].pc = "listener" => ui'[t].readIndex = 1 - ui'[t].writeIndex
             /\ ui[t].pc = "listener" /\ ui'[t].pc = "listener"
                  => ui'[t].slots[ui[t].readIndex + 1] = ui[t].slots[ui[t].readIndex + 1]]_vars

\* The second frame has been read into one slot while the listener holds the
\* first frame in the other.
C30_Witness ==
    \E t \in UITasks :
       /\ ui[t].pc = "listener" /\ ~ui[t].stopped /\ ui[t].child = "sending"
       /\ Slot(t, ui[t].readIndex).frame = 1
       /\ Slot(t, ui[t].writeIndex).frame = 2


\* --------------------------------------------------------- session lifecycle
\* SessionStart returns an error.
SessionStartFailStep == fgPc = "init" /\ fgErr' # NoErr

\* C31: when the start GET of SessionStart fails, SessionStart returns the
\* error and a nil context, the session registry is unchanged and no
\* control-channel task is spawned.
C31_FailedStart ==
    [][SessionStartFailStep
         => /\ ~HasContext'
            /\ sessionIdToCtx' = sessionIdToCtx
            /\ ctlPc' = "notStarted" /\ npolls' = 0]_vars

\* SessionStart has failed: the caller holds the error and no context.
C31_Witness ==
    /\ fgPc = "init" /\ fgErr = ErrHttp
    /\ sessionIdToCtx = {} /\ ctlPc = "notStarted"


\* The session with its engine and the application's calls of
\* SessionSendEvent and SessionSendNotification, all waiting on the same
\* shouldStopSession.
RequestCalls(t, maxCalls) ==
    \/ SendEvent(t, maxCalls)
    \/ SendNotification(t, maxCalls)
    \/ HttpDone(t)
    \/ HttpSelectStop(t)
    \/ HttpSelectErr(t)
    \/ ApiContinue(t)

\* The application task that makes these calls.
ShutdownTasks == {1}

NextShutdown ==
    \/ SessionStartOk({TRUE}, {TRUE})
    \/ SessionCalls
    \/ Control(SessionBodies(npolls), MaxSessionPolls)
    \/ \E t \in ShutdownTasks : RequestCalls(t, MaxShutdownCalls)

SpecShutdown == Init /\ [][NextShutdown]_vars

\* A call of the request API has returned ErrInterrupted.
RequestInterrupted == \E t \in ApiTasks : api[t].pc = "returned" /\ api[t].ret = ErrInterrupted

\* C32: the shutdown signal of SessionStop is a broadcast. A SessionSendEvent
\* or SessionSendNotification that receives it does not consume it: the signal
\* is still raised afterwards, and the engine's wait can still take it.
C32_ShutdownBroadcast ==
    RequestInterrupted
    => /\ shouldStopSession = "closed"
       /\ ctlPc = "waitHttp" => ENABLED ControlStopDuringHttp
       /\ ctlPc = "waitRead" => ENABLED ControlStopDuringRead

\* A call of the request API was interrupted and the engine has left on the
\* same signal and sent its ack.
C32_Witness ==
    /\ RequestInterrupted
    /\ ctlPc = "exited" /\ ctlErr = ErrInterrupted


\* The engine is done with the response it holds: it goes on to the next poll
\* or leaves.
EngineDoneWithBody ==
    /\ ctlPc \in {"waitHttp", "waitRead", "decode", "listener"}
    /\ ctlPc' \in {"loop", "sendDone"}

\* The pipeline of task t returns after it obtained the stream: the deferred
\* reader.Close() runs.
UIDeferredClose(t) ==
    /\ ui[t].pc \in {"top", "listener", "select"}
    /\ ui'[t].pc = "exit"

\* C33: every response body the engine or the UI pipeline obtained is closed
\* exactly once: the engine does not go on to the next poll or leave with an
\* open body (a body whose request was cancelled counts as released), no body
\* is closed twice, and the deferred close of the UI pipeline does not follow
\* a close made in its loop.
C33_BodyClosedOnce ==
    [][/\ EngineDoneWithBody /\ resBody # "none" => resBody' \in {"closed", "cancelled"}
       /\ resBody' # "closedTwice"
       /\ \A t \in UITasks : UIDeferredClose(t) => ~ui[t].sawStop]_vars


\* SessionUIStreamStop, called by the application, returns nil.
UIStreamStopReturnStep ==
    fgPc = "uiStopWait" /\ fgRet = "returned" /\ fgPc' = "returned"

\* C34: when SessionUIStreamStop returns nil the ack it consumed was sent by
\* the UI task, and no UI pipeline is running any more, so no frame reaches the
\* listener after the return.
C34_UIStopMeansExited ==
    [][UIStreamStopReturnStep
         => /\ isDone[1] = "ui"
            /\ \A t \in UITasks : ~UIRunning(t)]_vars


\* No UI pipeline task exists: none was launched, or each has sent its ack.
NoUITask == \A t \in UITasks : ui[t].pc \in {"idle", "done"}

\* C35: whenever no UI pipeline task is running and the caller is outside
\* SessionUIStreamStop, shouldStopUI holds no stop token, so the next stream
\* is not cancelled by a signal sent for an earlier one.
C35_NoStaleStopToken ==
    NoUITask /\ fgPc \in {"ready", "returned"} => shouldStopUI = 0


\* ------------------------------------ concurrent SessionUIStreamStart calls
\* A second task of the application calls SessionUIStreamStart with one of
\* formats: SessionGetUIURL, then the read of ctx.isUIStreaming.
StarterCheck(formats) ==
    /\ HasContext /\ startPc = "idle"
    /\ \E f \in formats :
         /\ startFmt' = f
         /\ startErr' = StartRefusal(f, isUIStreaming)
         /\ startPc' = IF StartRefusal(f, isUIStreaming) # NoErr THEN "returned" ELSE "checked"
    /\ UNCHANGED <<coreVars, resBody, apiVars, imgVars, pktVars, joinVars>>

\* The second task goes on after the check: ctx.isUIStreaming = true and
\* `go uiStreamRoutine(ctx, uri, format)`.
StarterLaunch(maxStreams) ==
    /\ startPc = "checked"
    /\ uiCount < maxStreams
    /\ isUIStreaming' = TRUE
    /\ ui' = [ui EXCEPT ![uiCount + 1] =
                [UIIdle EXCEPT !.pc = "get", !.format = startFmt,
                               !.uri = <<SessionGetUIURL(startFmt)>>,
                               !.kind = IF startFmt \in AllowedImageFmt
                                        THEN "image" ELSE "video"]]
    /\ uiCount' = uiCount + 1
    /\ startPc' = "returned"
    /\ UNCHANGED <<fgVars, shouldStopSession, shouldStopUI, isDone, sessionIdToCtx, sidOk, appf,
                   ctlVars, npolls, histVars, resBody, apiVars, imgVars, pktVars,
                   startFmt, startErr, joinVars>>

\* The second task has looked at the result and may call again.
StarterContinue ==
    /\ startPc = "returned"
    /\ startPc' = "idle" /\ startFmt' = "" /\ startErr' = NoErr
    /\ UNCHANGED <<coreVars, resBody, apiVars, imgVars, pktVars, joinVars>>

\* A pipeline whose stream carries no frame and ends on its own: the GET or
\* the first read fails.
UIPipelineOwnExit(t) ==
    \/ UIGetFail(t) \/ UIGetOk(t)
    \/ UITop(t) \/ UISelectErr(t)
    \/ UIChildReadFail(t) \/ UIChildSend(t)
    \/ UIExit(t) \/ UISendDone(t)

\* Two tasks of the application start UI streams on one context; the streams
\* end on their own.
NextStart ==
    \/ SessionStartOk({TRUE}, {TRUE})
    \/ UIStreamStart(SessionFormats, MaxUIStreams) \/ Continue
    \/ StarterCheck(SessionFormats) \/ StarterLaunch(MaxUIStreams) \/ StarterContinue
    \/ \E t \in UITasks : UIPipelineOwnExit(t)

SpecStart == Init /\ [][NextStart]_vars

\* The UI tasks whose pipeline is streaming.
Streaming == {t \in UITasks : UIRunning(t)}

\* C36: at most one UI pipeline task is streaming for a session at any time,
\* also when SessionUIStreamStart is called concurrently on the same context.
C36_OneStream == Cardinality(Streaming) <= 1


\* ------------------------------------------------- acks on ctx.isDone
\* A pipeline whose stream carries no frame: it ends on its own or on the
\* stop token.
UIPipelineNoFrames(t) ==
    \/ UIGetStopped(t) \/ UIGetFail(t) \/ UIGetOk(t)
    \/ UITop(t) \/ UISelectStop(t) \/ UISelectErr(t)
    \/ UIChildReadFail(t) \/ UIChildSend(t)
    \/ UIExit(t) \/ UISendDone(t)

\* UI streams are started and end, the engine polls, and SessionStop is
\* called (with the SessionUIStreamStop it makes while a stream is running).
NextAcks ==
    \/ SessionStartOk({TRUE}, {TRUE})
    \/ SessionCalls
    \/ UIStreamStart(SessionFormats, MaxUIStreams) \/ Continue
    \/ UIStreamStopNotStreaming \/ UIStreamStopCheck \/ UIStreamStopSend \/ UIStreamStopWait
    \/ Control(SessionBodies(npolls), MaxSessionPolls)
    \/ \E t \in UITasks : UIPipelineNoFrames(t)

SpecAcks == Init /\ [][NextAcks]_vars

\* A background task is at its `ctx.isDone <- true` and the channel is full.
BlockedOnIsDone ==
    /\ isDone # <<>>
    /\ ctlPc = "sendDone" \/ \E t \in UITasks : ui[t].pc = "sendDone"

\* C37: once SessionStop has returned, when nothing receives from ctx.isDone
\* any more, no background task is blocked on its isDone send.
C37_NoBlockedAck == fgPc = "stopReturned" => ~BlockedOnIsDone


\* The loop of task t, not stopped, is about to hand slot readIndex to the
\* listener (or to take the "image is not obtained" branch).
UIHandOverStep(t) ==
    /\ ui[t].pc = "top" /\ ~ui[t].stopped /\ ui[t].readIndex >= 0
    /\ ui'[t].pc # "top"

\* C38: the read task and the listener call do not overwrite each other's
\* outcome through the shared err: the slot handed to the listener holds a
\* frame whose read completed, and the "image is not obtained" branch is not
\* taken.
C38_ReadOutcomeKept ==
    [][\A t \in UITasks :
          UIHandOverStep(t)
          => /\ Slot(t, ui[t].readIndex).frame > 0
             /\ ui'[t].pc = "listener"]_vars


\* ------------------------------------------------ SessionStart and rejoin
\* The id in the response of the start GET: the id the caller passed, or, for
\* an empty one, an id the server has no session for.
StartedIds(sessionId) ==
    IF sessionId # "" THEN {sessionId} ELSE {id \in SessionIds : registry[id] = 0}

\* SessionStart with sessionId (empty, or the id of a session to join): the
\* context is created with its channels, stored in sessionIdToCtx under the
\* id of the response, and the engine is spawned for it.
JoinStart(maxContexts) ==
    /\ Len(contexts) < maxContexts
    /\ \E sessionId \in SessionIds \cup {""} :
         \E id \in StartedIds(sessionId) :
            /\ contexts' = Append(contexts, [SessionId |-> id, shouldStopSession |-> "open",
                                            engine |-> "polling"])
            /\ registry' = [registry EXCEPT ![id] = Len(contexts) + 1]
    /\ UNCHANGED <<coreVars, resBody, apiVars, imgVars, pktVars, startVars>>

\* close(ch) on a channel in state x: closing a closed channel panics.
CloseChannel(x) == IF x = "open" THEN "closed" ELSE "panic"

\* SessionStop on context c, a first or a further time:
\* close(ctx.shouldStopSession).
JoinStop(c) ==
    /\ contexts[c].shouldStopSession # "panic"
    /\ contexts' = [contexts EXCEPT ![c].shouldStopSession = CloseChannel(@)]
    /\ UNCHANGED <<coreVars, resBody, apiVars, imgVars, pktVars, startVars, registry>>

\* The engine of context c leaves: on the shutdown signal or on an error of
\* its own.
JoinEngineExit(c) ==
    /\ contexts[c].engine = "polling"
    /\ contexts' = [contexts EXCEPT ![c].engine = "exited"]
    /\ UNCHANGED <<coreVars, resBody, apiVars, imgVars, pktVars, startVars, registry>>

NextJoin ==
    \/ JoinStart(MaxContexts)
    \/ \E c \in 1..Len(contexts) : JoinStop(c) \/ JoinEngineExit(c)

SpecJoin == Init /\ [][NextJoin]_vars

\* The contexts whose engine polls for session id.
Polling(id) ==
    {c \in 1..Len(contexts) : contexts[c].SessionId = id /\ contexts[c].engine = "polling"}

\* C39: at most one engine polls for a session id at any time, also after a
\* SessionStart with the id of a running session; the registry then maps the
\* id to the context of that engine.
C39_OneEngine ==
    \A id \in SessionIds :
       /\ Cardinality(Polling(id)) <= 1
       /\ Polling(id) # {} => registry[id] \in Polling(id)


\* C40: shutdown is safe to repeat: a second SessionStop on a context does not
\* close the shutdown signal that the first one closed, so it does not panic.
C40_StopRepeatable ==
    \A c \in 1..Len(contexts) : contexts[c].shouldStopSession # "panic"
====
